---- MODULE Spec2Model ----
(***************************************************************************)
(* Model of the VDID Protocol backend request-security core:               *)
(*   - the token codec of auth.middleware.js (createToken / verifyToken),  *)
(*   - authMiddleware, optionalAuthMiddleware and requireRoles,            *)
(*   - the route handlers they guard,                                      *)
(*   - the origin policy of cors.config.js and the rate limiter of         *)
(*     security.middleware.js, in the order server.js mounts them.         *)
(*                                                                         *)
(* Representation.                                                         *)
(*   JavaScript values are tagged records (Undefined, Null, NaN, Num, Str, *)
(*   Arr, Obj).  An object keeps its properties in insertion order.        *)
(*   A JavaScript string that the code inspects character by character    *)
(*   (a token, an Authorization header, a ttl) is Text(c), c a sequence of *)
(*   characters; a character is a record.  Plain characters are Ch(c).     *)
(*   JSON text is a sequence of characters "{" member* "}" or one scalar   *)
(*   literal; base64url maps every text character to one character of the  *)
(*   base64url alphabet, and the decoder skips whatever is outside that    *)
(*   alphabet, as Buffer.from(str, 'base64') does.                         *)
(*   HMAC-SHA256 is an ideal keyed digest: deterministic, and injective in *)
(*   (key, data) on the bounded domain (no collisions).                    *)
(*   Time is Date.now() in milliseconds, scaled down to a small epoch so   *)
(*   that every product stays inside 32 bits.                              *)
(***************************************************************************)
EXTENDS Integers, Sequences, FiniteSets, TLC

VARIABLES
    clock,      \* Date.now(), milliseconds
    env,        \* process.env, an object
    tok,        \* codec: the token under test and how it was made
    verdict,    \* codec: the verifyToken run made at this instant, if any
    expiredFor, \* codec: the secrets under which tok was rejected as expired
    reqs,       \* pipeline: the in-flight requests
    store,      \* rate limiter: the window record of every client key
    tally       \* rate limiter: what the limiter decided in each key's window

vars == <<clock, env, tok, verdict, expiredFor, reqs, store, tally>>

----------------------------------------------------------------------------
(* JavaScript values *)

Undefined == [t |-> "undef"]
Null == [t |-> "null"]
NaN == [t |-> "nan"]
Num(n) == [t |-> "num", n |-> n]
Str(s) == [t |-> "str", s |-> s]
Arr(a) == [t |-> "arr", a |-> a]
Obj(m) == [t |-> "obj", m |-> m]
\* a string the code looks into: c is its sequence of characters
Text(c) == [t |-> "text", c |-> c]
\* the exception a JSON.parse or a property access on null raises
Throw == [t |-> "throw"]

\* !v
Falsy(v) ==
    \/ v.t \in {"undef", "null", "nan"}
    \/ (v.t = "num" /\ v.n = 0)
    \/ (v.t = "str" /\ v.s = "")
    \/ (v.t = "text" /\ v.c = <<>>)

\* Number(v) as the arithmetic operators apply it
ToNumber(v) ==
    CASE v.t = "num" -> v
      [] v.t = "null" -> Num(0)
      [] v.t = "str" /\ v.s = "" -> Num(0)
      [] OTHER -> NaN

JsMul(a, b) ==
    LET x == ToNumber(a)
        y == ToNumber(b)
    IN  IF x.t = "num" /\ y.t = "num" THEN Num(x.n * y.n) ELSE NaN

JsAdd(a, b) ==
    IF a.t = "num" /\ b.t = "num" THEN Num(a.n + b.n) ELSE NaN

\* Math.floor(a / d) for a positive integer d
JsFloorDiv(a, d) ==
    IF a.t = "num" THEN Num(a.n \div d) ELSE NaN

\* a >= b ; any comparison with NaN is false
JsGe(a, b) ==
    LET x == ToNumber(a)
        y == ToNumber(b)
    IN  x.t = "num" /\ y.t = "num" /\ x.n >= y.n

\* index of the last member of m named k, 0 if there is none
RECURSIVE MemberIndex(_, _, _)
MemberIndex(m, k, i) ==
    IF i = 0 THEN 0
    ELSE IF m[i].k = k THEN i
    ELSE MemberIndex(m, k, i - 1)

\* o[k] : undefined for a missing property and for a primitive
Get(o, k) ==
    IF o.t # "obj" THEN Undefined
    ELSE LET i == MemberIndex(o.m, k, Len(o.m))
         IN  IF i = 0 THEN Undefined ELSE o.m[i].v

\* { ...o, [k]: v } : an existing property keeps its place and takes the new
\* value, a new one is appended
Assign(o, k, v) ==
    LET i == MemberIndex(o.m, k, Len(o.m))
    IN  IF i = 0 THEN Obj(Append(o.m, [k |-> k, v |-> v]))
        ELSE Obj([o.m EXCEPT ![i] = [k |-> k, v |-> v]])

\* x || d
OrElse(x, d) == IF Falsy(x) THEN d ELSE x

----------------------------------------------------------------------------
(* Strings as character sequences *)

Ch(c) == [ch |-> c]
Dot == Ch(".")
LBrace == Ch("{")
RBrace == Ch("}")

EndsWith(s, c) == Len(s) > 0 /\ s[Len(s)] = c

StartsWith(s, p) == Len(s) >= Len(p) /\ SubSeq(s, 1, Len(p)) = p

Slice(s, n) == SubSeq(s, n + 1, Len(s))

DigitOf ==
    [c \in {"0", "1", "2", "3", "4", "5", "6", "7", "8", "9"} |->
        CASE c = "0" -> 0 [] c = "1" -> 1 [] c = "2" -> 2 [] c = "3" -> 3
          [] c = "4" -> 4 [] c = "5" -> 5 [] c = "6" -> 6 [] c = "7" -> 7
          [] c = "8" -> 8 [] c = "9" -> 9]

IsDigit(c) == "ch" \in DOMAIN c /\ c.ch \in DOMAIN DigitOf

\* value of the run of digits s[i..] continued from acc
RECURSIVE DigitRun(_, _, _)
DigitRun(s, i, acc) ==
    IF i > Len(s) \/ ~IsDigit(s[i]) THEN acc
    ELSE DigitRun(s, i + 1, acc * 10 + DigitOf[s[i].ch])

\* parseInt(s): an optional sign and the leading decimal digits, NaN when
\* there is no digit
parseInt(s) ==
    LET neg == Len(s) > 0 /\ s[1] = Ch("-")
        from == IF neg THEN 2 ELSE 1
    IN  IF from > Len(s) \/ ~IsDigit(s[from]) THEN NaN
        ELSE Num((IF neg THEN -1 ELSE 1) * DigitRun(s, from, 0))

\* s.split('.')
RECURSIVE Split(_)
Split(s) ==
    IF \A i \in 1..Len(s) : s[i] # Dot THEN <<s>>
    ELSE LET i == CHOOSE j \in 1..Len(s) :
                     s[j] = Dot /\ \A h \in 1..(j - 1) : s[h] # Dot
         IN  <<SubSeq(s, 1, i - 1)>> \o Split(SubSeq(s, i + 1, Len(s)))

----------------------------------------------------------------------------
(* JSON and base64url *)

IsMember(c) == DOMAIN c = {"k", "v"}
IsLiteral(c) == DOMAIN c = {"lit"}

\* what JSON.stringify writes for a property value
JsonValue(v) == IF v.t = "nan" THEN Null ELSE v

\* JSON.stringify of an object: the members in order, a property whose value
\* is undefined is left out, NaN is written as null
JSONStringify(o) ==
    LET kept == SelectSeq(o.m, LAMBDA e : e.v.t # "undef")
    IN  <<LBrace>>
        \o [i \in 1..Len(kept) |-> [k |-> kept[i].k, v |-> JsonValue(kept[i].v)]]
        \o <<RBrace>>

RECURSIVE MembersToObject(_, _, _)
MembersToObject(text, i, o) ==
    IF i > Len(text) - 1 THEN o
    ELSE MembersToObject(text, i + 1, Assign(o, text[i].k, text[i].v))

\* JSON.parse: an object text, a scalar literal, or a SyntaxError
JSONParse(text) ==
    IF /\ Len(text) >= 2
       /\ text[1] = LBrace
       /\ text[Len(text)] = RBrace
       /\ \A i \in 2..(Len(text) - 1) : IsMember(text[i])
    THEN MembersToObject(text, 2, Obj(<<>>))
    ELSE IF Len(text) = 1 /\ IsLiteral(text[1]) THEN text[1].lit
    ELSE Throw

\* Buffer.from(text).toString('base64url')
Base64url(text) == [i \in 1..Len(text) |-> [b64 |-> text[i]]]

IsBase64(c) == DOMAIN c = {"b64"}

\* base64urlDecode: characters outside the alphabet are skipped
base64urlDecode(str) ==
    LET in == SelectSeq(str, IsBase64)
    IN  [i \in 1..Len(in) |-> in[i].b64]

\* crypto.createHmac('sha256', secret).update(data).digest('base64url')
HmacSha256(secret, data) ==
    [i \in 1..Len(data) |-> [mac |-> secret, of |-> data[i]]]

----------------------------------------------------------------------------
(* Token codec: auth.middleware.js *)

DateNow == clock

HourMs == 60 * 60 * 1000

DayMs == 24 * 60 * 60 * 1000

\* the default value of createToken's expiresIn parameter
DefaultExpiresIn == <<Ch("2"), Ch("4"), Ch("h")>>

\* const header = { alg: 'HS256', typ: 'JWT' }
TokenHeader ==
    Obj(<<[k |-> "alg", v |-> Str("HS256")], [k |-> "typ", v |-> Str("JWT")]>>)

\* createToken with the day unit multiplied as the hour unit is
createTokenDaysAsHours(payload, secret, expiresIn) ==
    LET ttl == IF expiresIn.t = "undef" THEN DefaultExpiresIn ELSE expiresIn.c
        expMs == IF EndsWith(ttl, Ch("h")) THEN JsMul(parseInt(ttl), Num(HourMs))
                 ELSE IF EndsWith(ttl, Ch("d")) THEN JsMul(parseInt(ttl), Num(HourMs))
                 ELSE Num(DayMs)
        now == DateNow \div 1000
        fullPayload == Assign(Assign(payload, "iat", Num(now)),
                              "exp", JsAdd(Num(now), JsFloorDiv(expMs, 1000)))
        headerB64 == Base64url(JSONStringify(TokenHeader))
        payloadB64 == Base64url(JSONStringify(fullPayload))
        signature == HmacSha256(secret, headerB64 \o <<Dot>> \o payloadB64)
    IN  Text(headerB64 \o <<Dot>> \o payloadB64 \o <<Dot>> \o signature)

\* createToken spreading the payload after iat and exp: an exp of the caller
\* stays
createTokenKeepsCallerExp(payload, secret, expiresIn) ==
    LET ttl == IF expiresIn.t = "undef" THEN DefaultExpiresIn ELSE expiresIn.c
        header == TokenHeader
        expMs == IF EndsWith(ttl, Ch("h")) THEN JsMul(parseInt(ttl), Num(HourMs))
                 ELSE IF EndsWith(ttl, Ch("d")) THEN JsMul(parseInt(ttl), Num(DayMs))
                 ELSE Num(DayMs)
        now == DateNow \div 1000
        fullPayload == IF Get(payload, "exp") = Undefined
                       THEN Assign(Assign(payload, "iat", Num(now)),
                                   "exp", JsAdd(Num(now), JsFloorDiv(expMs, 1000)))
                       ELSE Assign(payload, "iat", Num(now))
        headerB64 == Base64url(JSONStringify(header))
        payloadB64 == Base64url(JSONStringify(fullPayload))
        signature == HmacSha256(secret, headerB64 \o <<Dot>> \o payloadB64)
    IN  Text(headerB64 \o <<Dot>> \o payloadB64 \o <<Dot>> \o signature)

\* createToken(payload, secret, expiresIn = '24h'); expiresIn is Undefined
\* when the caller leaves it out, else a Text
createToken(payload, secret, expiresIn) ==
    LET ttl == IF expiresIn.t = "undef" THEN DefaultExpiresIn ELSE expiresIn.c
        header == TokenHeader
        expMs == IF EndsWith(ttl, Ch("h")) THEN JsMul(parseInt(ttl), Num(HourMs))
                 ELSE IF EndsWith(ttl, Ch("d")) THEN JsMul(parseInt(ttl), Num(DayMs))
                 ELSE Num(DayMs)
        now == DateNow \div 1000
        fullPayload == Assign(Assign(payload, "iat", Num(now)),
                              "exp", JsAdd(Num(now), JsFloorDiv(expMs, 1000)))
        headerB64 == Base64url(JSONStringify(header))
        payloadB64 == Base64url(JSONStringify(fullPayload))
        signature == HmacSha256(secret, headerB64 \o <<Dot>> \o payloadB64)
    IN  Text(headerB64 \o <<Dot>> \o payloadB64 \o <<Dot>> \o signature)

\* verifyToken comparing only the length of the signature
VerifyRunAtLengthOnly(token, secret, now) ==
    LET parts == Split(token.c)
        rejected == [ret |-> Null, decoded |-> FALSE, raised |-> FALSE]
    IN  IF Len(parts) # 3 THEN rejected
        ELSE
        LET headerB64 == parts[1]
            payloadB64 == parts[2]
            signatureB64 == parts[3]
            signatureData == headerB64 \o <<Dot>> \o payloadB64
            expectedSignature == HmacSha256(secret, signatureData)
        IN  IF Len(signatureB64) # Len(expectedSignature) THEN rejected
            ELSE
            LET payload == JSONParse(base64urlDecode(payloadB64))
                exp == Get(payload, "exp")
            IN  IF payload = Throw
                THEN [ret |-> Null, decoded |-> TRUE, raised |-> TRUE]
                ELSE IF payload.t \in {"null", "undef"}
                THEN [ret |-> Null, decoded |-> TRUE, raised |-> TRUE]
                ELSE IF ~Falsy(exp) /\ JsGe(Num(now), JsMul(exp, Num(1000)))
                THEN [ret |-> Null, decoded |-> TRUE, raised |-> FALSE]
                ELSE [ret |-> payload, decoded |-> TRUE, raised |-> FALSE]

\* verifyToken rejecting only strictly after the expiry instant
VerifyRunAtStrictlyAfter(token, secret, now) ==
    LET parts == Split(token.c)
        rejected == [ret |-> Null, decoded |-> FALSE, raised |-> FALSE]
    IN  IF Len(parts) # 3 THEN rejected
        ELSE
        LET headerB64 == parts[1]
            payloadB64 == parts[2]
            signatureB64 == parts[3]
            signatureData == headerB64 \o <<Dot>> \o payloadB64
            expectedSignature == HmacSha256(secret, signatureData)
        IN  IF signatureB64 # expectedSignature THEN rejected
            ELSE
            LET payload == JSONParse(base64urlDecode(payloadB64))
                exp == Get(payload, "exp")
            IN  IF payload = Throw
                THEN [ret |-> Null, decoded |-> TRUE, raised |-> TRUE]
                ELSE IF payload.t \in {"null", "undef"}
                THEN [ret |-> Null, decoded |-> TRUE, raised |-> TRUE]
                ELSE IF ~Falsy(exp) /\ JsGe(Num(now), JsAdd(JsMul(exp, Num(1000)), Num(1)))
                THEN [ret |-> Null, decoded |-> TRUE, raised |-> FALSE]
                ELSE [ret |-> payload, decoded |-> TRUE, raised |-> FALSE]

\* verifyToken without the catch around JSON.parse
VerifyRunAtNoCatch(token, secret, now) ==
    LET parts == Split(token.c)
        rejected == [ret |-> Null, decoded |-> FALSE, raised |-> FALSE]
    IN  IF Len(parts) # 3 THEN rejected
        ELSE
        LET headerB64 == parts[1]
            payloadB64 == parts[2]
            signatureB64 == parts[3]
            signatureData == headerB64 \o <<Dot>> \o payloadB64
            expectedSignature == HmacSha256(secret, signatureData)
        IN  IF signatureB64 # expectedSignature THEN rejected
            ELSE
            LET payload == JSONParse(base64urlDecode(payloadB64))
                exp == Get(payload, "exp")
            IN  IF payload = Throw
                THEN [ret |-> Throw, decoded |-> TRUE, raised |-> TRUE]
                ELSE IF payload.t \in {"null", "undef"}
                THEN [ret |-> Null, decoded |-> TRUE, raised |-> TRUE]
                ELSE IF ~Falsy(exp) /\ JsGe(Num(now), JsMul(exp, Num(1000)))
                THEN [ret |-> Null, decoded |-> TRUE, raised |-> FALSE]
                ELSE [ret |-> payload, decoded |-> TRUE, raised |-> FALSE]

\* One run of verifyToken(token, secret) at the instant Date.now() = now.
\*   ret     : the value returned (Null for every rejection)
\*   decoded : JSON.parse(base64urlDecode(payloadB64)) was evaluated
\*   raised  : an exception was raised inside the try block (and caught)
VerifyRunAt(token, secret, now) ==
    LET parts == Split(token.c)
        rejected == [ret |-> Null, decoded |-> FALSE, raised |-> FALSE]
    IN  IF Len(parts) # 3 THEN rejected
        ELSE
        LET headerB64 == parts[1]
            payloadB64 == parts[2]
            signatureB64 == parts[3]
            signatureData == headerB64 \o <<Dot>> \o payloadB64
            expectedSignature == HmacSha256(secret, signatureData)
        IN  IF signatureB64 # expectedSignature THEN rejected
            ELSE
            LET payload == JSONParse(base64urlDecode(payloadB64))
                exp == Get(payload, "exp")
            IN  IF payload = Throw
                THEN [ret |-> Null, decoded |-> TRUE, raised |-> TRUE]
                ELSE IF payload.t \in {"null", "undef"}
                THEN [ret |-> Null, decoded |-> TRUE, raised |-> TRUE]
                ELSE IF ~Falsy(exp) /\ JsGe(Num(now), JsMul(exp, Num(1000)))
                THEN [ret |-> Null, decoded |-> TRUE, raised |-> FALSE]
                ELSE [ret |-> payload, decoded |-> TRUE, raised |-> FALSE]

VerifyRun(token, secret) == VerifyRunAt(token, secret, DateNow)

verifyToken(token, secret) == VerifyRun(token, secret).ret

----------------------------------------------------------------------------
(* Inputs of the codec *)

Secrets == {Str("k1"), Str("k2")}

\* claims a caller hands to createToken
ClaimsAdmin ==
    Obj(<<[k |-> "sub", v |-> Str("u1")],
          [k |-> "did", v |-> Str("did:vdid:u1")],
          [k |-> "wallets", v |-> Arr(<<Str("0xA1")>>)],
          [k |-> "roles", v |-> Arr(<<Str("admin")>>)]>>)

ClaimsUser ==
    Obj(<<[k |-> "sub", v |-> Str("u2")],
          [k |-> "roles", v |-> Arr(<<Str("user")>>)]>>)

\* claims that name the issued-at and expires-at keys themselves
ClaimsOwnExp ==
    Obj(<<[k |-> "exp", v |-> Num(2000000000)],
          [k |-> "sub", v |-> Str("u3")],
          [k |-> "iat", v |-> Num(1)]>>)

\* claims JSON cannot carry: an undefined and a NaN property
ClaimsNotJson ==
    Obj(<<[k |-> "sub", v |-> Str("u4")],
          [k |-> "did", v |-> Undefined],
          [k |-> "score", v |-> NaN]>>)

ClaimsInputs == {ClaimsAdmin, ClaimsUser, ClaimsOwnExp, ClaimsNotJson}

\* every property value is one JSON keeps
ValidClaims(o) == \A i \in 1..Len(o.m) : o.m[i].v.t \notin {"undef", "nan"}

Chars(s) == [i \in 1..Len(s) |-> Ch(s[i])]

TtlInputs ==
    {Undefined} \cup
    {Text(Chars(s)) : s \in {<<"1", "h">>, <<"2", "4", "h">>, <<"7", "d">>,
                             <<"0", "h">>, <<"h">>, <<"d">>, <<"3", "0", "m">>,
                             <<"9", "0">>, <<>>}}

\* the first instant of the model, a whole second
Epoch == 2 * HourMs

ClockPoints ==
    {Epoch + base + off : base \in {0, HourMs, DayMs, 7 * DayMs},
                          off \in {-1, 0, 500}} \ {Epoch - 1}

\* a token over any payload text, signed as createToken signs
SignedToken(text, secret) ==
    LET headerB64 == Base64url(JSONStringify(TokenHeader))
        payloadB64 == Base64url(text)
    IN  Text(headerB64 \o <<Dot>> \o payloadB64 \o <<Dot>>
             \o HmacSha256(secret, headerB64 \o <<Dot>> \o payloadB64))

EpochSec == Epoch \div 1000

Member(k, v) == [k |-> k, v |-> v]

PayloadTexts ==
    { <<LBrace, Member("sub", Str("u5")), RBrace>>,
      <<LBrace, Member("sub", Str("u5")), Member("exp", Null), RBrace>>,
      <<LBrace, Member("sub", Str("u5")), Member("exp", Num(0)), RBrace>>,
      <<LBrace, Member("sub", Str("u5")), Member("exp", Num(EpochSec - 60)), RBrace>>,
      <<LBrace, Member("sub", Str("u5")), Member("exp", Num(EpochSec + 3600)), RBrace>>,
      <<LBrace, Member("exp", Num(EpochSec + 3600)), Member("exp", Num(EpochSec)), RBrace>>,
      <<[lit |-> Null]>>,
      <<[lit |-> Num(5)]>>,
      <<LBrace, Member("sub", Str("u5"))>>,
      <<>> }

\* strings that are not three dot-separated segments, or are three segments
\* nobody signed
RawTokens ==
    { Text(<<>>),
      Text(<<Ch("x")>>),
      Text(<<Ch("x"), Dot, Ch("y")>>),
      Text(<<Ch("x"), Dot, Ch("y"), Dot, Ch("z")>>),
      Text(<<Dot, Dot>>),
      Text(SignedToken(<<LBrace, RBrace>>, Str("k1")).c \o <<Dot, Ch("x")>>) }

PresentedTokens ==
    RawTokens \cup {SignedToken(x, k) : x \in PayloadTexts, k \in Secrets}

\* the characters a tampering writes over one character of a token
TamperChars ==
    { Dot, Ch("x"), [b64 |-> RBrace],
      [b64 |-> Member("exp", Num(EpochSec + 8 * 24 * 3600))],
      [mac |-> Str("k1"), of |-> Dot] }

----------------------------------------------------------------------------
(* The codec under test: one token is made, verified as the clock advances, *)
(* and possibly changed in one character.                                   *)

NoToken ==
    [kind |-> "none", token |-> Text(<<>>), base |-> Text(<<>>),
     payload |-> Undefined, secret |-> Undefined, expiresIn |-> Undefined,
     at |-> 0]

NoVerdict == [kind |-> "none"]

InitCodec ==
    /\ clock = Epoch
    /\ env = Obj(<<>>)
    /\ tok = NoToken
    /\ verdict = NoVerdict
    /\ expiredFor = {}
    /\ reqs = << >>
    /\ store = {}
    /\ tally = {}

\* the caller issues a token
Issue(payload, secret, expiresIn) ==
    /\ tok.kind = "none"
    /\ tok' = [kind |-> "issued",
               token |-> createToken(payload, secret, expiresIn),
               base |-> createToken(payload, secret, expiresIn),
               payload |-> payload, secret |-> secret,
               expiresIn |-> expiresIn, at |-> clock]
    /\ UNCHANGED <<clock, env, verdict, expiredFor, reqs, store, tally>>

\* somebody presents a token that createToken did not make
Present(token) ==
    /\ tok.kind = "none"
    /\ tok' = [NoToken EXCEPT !.kind = "presented", !.token = token,
                              !.base = token, !.at = clock]
    /\ UNCHANGED <<clock, env, verdict, expiredFor, reqs, store, tally>>

\* verifyToken(tok.token, secret)
Verify(secret) ==
    /\ tok.kind # "none"
    /\ LET run == VerifyRun(tok.token, secret)
       IN  /\ verdict' = [kind |-> "run", secret |-> secret, run |-> run]
           /\ expiredFor' =
                 IF run.decoded /\ ~run.raised /\ run.ret = Null
                 THEN expiredFor \cup {secret} ELSE expiredFor
    /\ UNCHANGED <<clock, env, tok, reqs, store, tally>>

\* one character of one segment of a token that has just verified is changed
Tamper(i, c) ==
    /\ tok.kind \in {"issued", "presented"}
    /\ verdict.kind = "run"
    /\ verdict.run.ret # Null
    /\ tok.token.c[i] # Dot
    /\ tok.token.c[i] # c
    /\ tok' = [tok EXCEPT !.kind = "tampered",
                          !.token = Text([tok.token.c EXCEPT ![i] = c])]
    /\ verdict' = NoVerdict
    /\ expiredFor' = {}
    /\ UNCHANGED <<clock, env, reqs, store, tally>>

\* time passes
Tick(t) ==
    /\ t > clock
    /\ clock' = t
    /\ verdict' = NoVerdict
    /\ UNCHANGED <<env, tok, expiredFor, reqs, store, tally>>

NextCodec ==
    \/ \E p \in ClaimsInputs, k \in Secrets, e \in TtlInputs : Issue(p, k, e)
    \/ \E t \in PresentedTokens : Present(t)
    \/ \E k \in Secrets : Verify(k)
    \/ \E t \in ClockPoints : Tick(t)

SpecCodec == InitCodec /\ [][NextCodec]_vars

\* the same codec on fewer tokens, with the tampering
TamperClaims == {ClaimsAdmin, ClaimsUser}

TamperTtls == {Undefined, Text(Chars(<<"1", "h">>))}

TamperTexts ==
    { <<LBrace, Member("sub", Str("u5")), RBrace>>,
      <<LBrace, Member("sub", Str("u5")), Member("exp", Num(EpochSec + 3600)), RBrace>>,
      <<[lit |-> Num(5)]>> }

TamperClock == {Epoch, Epoch + HourMs, Epoch + DayMs}

NextTamper ==
    \/ \E p \in TamperClaims, k \in Secrets, e \in TamperTtls : Issue(p, k, e)
    \/ \E x \in TamperTexts, k \in Secrets : Present(SignedToken(x, k))
    \/ \E k \in Secrets : Verify(k)
    \/ \E i \in 1..Len(tok.token.c), c \in TamperChars : Tamper(i, c)
    \/ \E t \in TamperClock : Tick(t)

SpecTamper == InitCodec /\ [][NextTamper]_vars

----------------------------------------------------------------------------
(* Auth middleware and the routes behind it *)

\* number of requests in flight together
NumReq == 2

Requests == 1..NumReq

BearerPrefix == Chars(<<"B", "e", "a", "r", "e", "r", " ">>)

\* routes of vscore.routes.js: GET /vscore runs authMiddleware,
\* GET /vscore/:identifier runs optionalAuthMiddleware
ProtectedRoutes == {"GET /vscore"}

OptionalRoutes == {"GET /vscore/:identifier"}

\* routes that mount requireRoles: behind authMiddleware, behind
\* optionalAuthMiddleware, and with no auth middleware before it
GuardedRoutes == {"GET /admin", "GET /staff", "GET /bare"}

\* the allow-list each of them hands to requireRoles(...allowedRoles)
allowedRoles(route) ==
    IF route = "GET /staff" THEN <<Str("ops")>>
    ELSE <<Str("admin"), Str("ops")>>

\* the routes whose first middleware is authMiddleware()
AuthRoutes == ProtectedRoutes \cup {"GET /admin"}

\* the routes whose first middleware is optionalAuthMiddleware()
OptionalAuthRoutes == OptionalRoutes \cup {"GET /staff"}

\* where next() leads from the first middleware of a route
FirstStage(route) == IF route = "GET /bare" THEN "roles" ELSE "auth"

\* where next() leads from the auth middleware of a route
AfterAuth(route) == IF route \in GuardedRoutes THEN "roles" ELSE "handler"

\* req and res of one request: id is req.id, body is req.body, resHeaders
\* are the headers set on res so far
IdleRequest ==
    [pc |-> "idle", route |-> "none", headers |-> Obj(<<>>),
     remoteAddress |-> Undefined, id |-> Undefined, body |-> Undefined,
     user |-> Undefined, resHeaders |-> {}, responses |-> <<>>, nexts |-> 0,
     err |-> Undefined, at |-> 0]

\* err.stack: the name and the message of the error, then the frames
Stack(name, message) ==
    [name |-> name, message |-> message, frames |-> "at"]

\* the error res.json raises once the headers of the response are out
HeadersSentError ==
    [name |-> "Error",
     message |-> "Cannot set headers after they are sent to the client",
     statusCode |-> Undefined, status |-> Undefined,
     code |-> Str("ERR_HTTP_HEADERS_SENT"), details |-> Undefined,
     isOperational |-> FALSE,
     stack |-> Stack("Error", "Cannot set headers after they are sent to the client")]

\* the error middleware that follows the step a request is in: corsErrorHandler,
\* then errorHandler, then the one Express ends every chain with
NextErrorStage(pc) ==
    IF pc = "corsError" THEN "error"
    ELSE IF pc = "error" THEN "final"
    ELSE "corsError"

\* res.status(status).json(body): the response is written with the headers
\* set on res, the chain ends; on a response already sent it throws, and the
\* error goes to the next error middleware
Respond(req, status, body) ==
    IF Len(req.responses) > 0
    THEN [req EXCEPT !.err = HeadersSentError, !.pc = NextErrorStage(req.pc)]
    ELSE [req EXCEPT !.responses = Append(@, [status |-> status, body |-> body,
                                              headers |-> req.resHeaders]),
                     !.pc = "done"]

ErrorBody(code, message) ==
    [success |-> FALSE, error |-> [code |-> code, message |-> message]]

\* the object authMiddleware and optionalAuthMiddleware attach as req.user
IdentityOf(payload) ==
    Obj(<<[k |-> "id", v |-> Get(payload, "sub")],
          [k |-> "did", v |-> Get(payload, "did")],
          [k |-> "wallets", v |-> OrElse(Get(payload, "wallets"), Arr(<<>>))],
          [k |-> "roles", v |-> OrElse(Get(payload, "roles"), Arr(<<>>))]>>)

\* the instant the auth middleware ran on the request (kept for the claims)
Stamp(req) == [req EXCEPT !.at = clock]

\* authHeader.slice(7)
BearerToken(authHeader) == Text(Slice(authHeader.c, 7))

\* authMiddleware looking for the secret before the Bearer prefix
AuthMiddlewareSecretFirst(r) ==
    LET req == reqs[r]
        authHeader == Get(req.headers, "authorization")
        token == BearerToken(authHeader)
        secret == Get(env, "JWT_SECRET")
        payload == verifyToken(token, secret)
    IN  /\ req.pc = "auth"
        /\ req.route \in AuthRoutes
        /\ reqs' = [reqs EXCEPT ![r] =
              IF Falsy(authHeader)
              THEN Respond(Stamp(req), 401, ErrorBody("MISSING_AUTH_HEADER",
                                   "Authorization header is required"))
              ELSE IF Falsy(secret)
              THEN Respond(Stamp(req), 500, ErrorBody("SERVER_CONFIG_ERROR",
                                   "Server authentication not configured"))
              ELSE IF ~StartsWith(authHeader.c, BearerPrefix)
              THEN Respond(Stamp(req), 401, ErrorBody("INVALID_AUTH_FORMAT",
                                   "Authorization header must use Bearer token format"))
              ELSE IF Falsy(payload)
              THEN Respond(Stamp(req), 401, ErrorBody("INVALID_TOKEN",
                                   "Invalid or expired token"))
              ELSE [Stamp(req) EXCEPT !.user = IdentityOf(payload),
                                      !.nexts = @ + 1,
                                      !.pc = AfterAuth(req.route)]]
        /\ UNCHANGED <<clock, env, tok, verdict, expiredFor, store, tally>>

\* authMiddleware reading the Authorization header of the first request
AuthMiddlewareFirstHeader(r) ==
    LET req == reqs[r]
        authHeader == Get(reqs[1].headers, "authorization")
        token == BearerToken(authHeader)
        secret == Get(env, "JWT_SECRET")
        payload == verifyToken(token, secret)
    IN  /\ req.pc = "auth"
        /\ req.route \in AuthRoutes
        /\ reqs' = [reqs EXCEPT ![r] =
              IF Falsy(authHeader)
              THEN Respond(Stamp(req), 401, ErrorBody("MISSING_AUTH_HEADER",
                                   "Authorization header is required"))
              ELSE IF ~StartsWith(authHeader.c, BearerPrefix)
              THEN Respond(Stamp(req), 401, ErrorBody("INVALID_AUTH_FORMAT",
                                   "Authorization header must use Bearer token format"))
              ELSE IF Falsy(secret)
              THEN Respond(Stamp(req), 500, ErrorBody("SERVER_CONFIG_ERROR",
                                   "Server authentication not configured"))
              ELSE IF Falsy(payload)
              THEN Respond(Stamp(req), 401, ErrorBody("INVALID_TOKEN",
                                   "Invalid or expired token"))
              ELSE [Stamp(req) EXCEPT !.user = IdentityOf(payload),
                                      !.nexts = @ + 1,
                                      !.pc = AfterAuth(req.route)]]
        /\ UNCHANGED <<clock, env, tok, verdict, expiredFor, store, tally>>

\* authMiddleware letting the request through when no secret is set
AuthMiddlewareNoSecretPasses(r) ==
    LET req == reqs[r]
        authHeader == Get(req.headers, "authorization")
        token == BearerToken(authHeader)
        secret == Get(env, "JWT_SECRET")
        payload == verifyToken(token, secret)
    IN  /\ req.pc = "auth"
        /\ req.route \in AuthRoutes
        /\ reqs' = [reqs EXCEPT ![r] =
              IF Falsy(authHeader)
              THEN Respond(Stamp(req), 401, ErrorBody("MISSING_AUTH_HEADER",
                                   "Authorization header is required"))
              ELSE IF ~StartsWith(authHeader.c, BearerPrefix)
              THEN Respond(Stamp(req), 401, ErrorBody("INVALID_AUTH_FORMAT",
                                   "Authorization header must use Bearer token format"))
              ELSE IF Falsy(secret)
              THEN [Stamp(req) EXCEPT !.nexts = @ + 1, !.pc = "handler"]
              ELSE IF Falsy(payload)
              THEN Respond(Stamp(req), 401, ErrorBody("INVALID_TOKEN",
                                   "Invalid or expired token"))
              ELSE [Stamp(req) EXCEPT !.user = IdentityOf(payload),
                                      !.nexts = @ + 1,
                                      !.pc = AfterAuth(req.route)]]
        /\ UNCHANGED <<clock, env, tok, verdict, expiredFor, store, tally>>

\* the middleware authMiddleware() returns, run on request r
AuthMiddleware(r) ==
    LET req == reqs[r]
        authHeader == Get(req.headers, "authorization")
        token == BearerToken(authHeader)
        secret == Get(env, "JWT_SECRET")
        payload == verifyToken(token, secret)
    IN  /\ req.pc = "auth"
        /\ req.route \in AuthRoutes
        /\ reqs' = [reqs EXCEPT ![r] =
              IF Falsy(authHeader)
              THEN Respond(Stamp(req), 401, ErrorBody("MISSING_AUTH_HEADER",
                                   "Authorization header is required"))
              ELSE IF ~StartsWith(authHeader.c, BearerPrefix)
              THEN Respond(Stamp(req), 401, ErrorBody("INVALID_AUTH_FORMAT",
                                   "Authorization header must use Bearer token format"))
              ELSE IF Falsy(secret)
              THEN Respond(Stamp(req), 500, ErrorBody("SERVER_CONFIG_ERROR",
                                   "Server authentication not configured"))
              ELSE IF Falsy(payload)
              THEN Respond(Stamp(req), 401, ErrorBody("INVALID_TOKEN",
                                   "Invalid or expired token"))
              ELSE [Stamp(req) EXCEPT !.user = IdentityOf(payload),
                                      !.nexts = @ + 1,
                                      !.pc = AfterAuth(req.route)]]
        /\ UNCHANGED <<clock, env, tok, verdict, expiredFor, store, tally>>

\* optionalAuthMiddleware answering 401 when the header does not verify
OptionalAuthMiddlewareRejects(r) ==
    LET req == reqs[r]
        authHeader == Get(req.headers, "authorization")
        token == BearerToken(authHeader)
        secret == Get(env, "JWT_SECRET")
        payload == verifyToken(token, secret)
        user == IF Falsy(authHeader) \/ ~StartsWith(authHeader.c, BearerPrefix)
                THEN Null
                ELSE IF ~Falsy(secret)
                THEN IF ~Falsy(payload) THEN IdentityOf(payload) ELSE Null
                ELSE Null
    IN  /\ req.pc = "auth"
        /\ req.route \in OptionalAuthRoutes
        /\ reqs' = [reqs EXCEPT ![r] =
              IF ~Falsy(authHeader) /\ user = Null
              THEN Respond(Stamp(req), 401, ErrorBody("INVALID_TOKEN",
                                   "Invalid or expired token"))
              ELSE [Stamp(req) EXCEPT !.user = user,
                                      !.nexts = @ + 1,
                                      !.pc = AfterAuth(req.route)]]
        /\ UNCHANGED <<clock, env, tok, verdict, expiredFor, store, tally>>

\* the middleware optionalAuthMiddleware() returns, run on request r
OptionalAuthMiddleware(r) ==
    LET req == reqs[r]
        authHeader == Get(req.headers, "authorization")
        token == BearerToken(authHeader)
        secret == Get(env, "JWT_SECRET")
        payload == verifyToken(token, secret)
        user == IF Falsy(authHeader) \/ ~StartsWith(authHeader.c, BearerPrefix)
                THEN Null
                ELSE IF ~Falsy(secret)
                THEN IF ~Falsy(payload) THEN IdentityOf(payload) ELSE Null
                ELSE Null
    IN  /\ req.pc = "auth"
        /\ req.route \in OptionalAuthRoutes
        /\ reqs' = [reqs EXCEPT ![r] =
              [Stamp(req) EXCEPT !.user = user,
                                 !.nexts = @ + 1,
                                 !.pc = AfterAuth(req.route)]]
        /\ UNCHANGED <<clock, env, tok, verdict, expiredFor, store, tally>>

\* the lower-case form of a role string
LowerCase(v) == IF v = Str("Admin") THEN Str("admin") ELSE v

\* requireRoles comparing roles without regard to case
RequireRolesFoldsCase(r) ==
    LET req == reqs[r]
        allowed == allowedRoles(req.route)
        userRoles == OrElse(Get(req.user, "roles"), Arr(<<>>))
        hasRole == \E i \in 1..Len(allowed) :
                      \E j \in 1..Len(userRoles.a) : LowerCase(userRoles.a[j]) = LowerCase(allowed[i])
    IN  /\ req.pc = "roles"
        /\ reqs' = [reqs EXCEPT ![r] =
              IF Falsy(req.user)
              THEN Respond(req, 401, ErrorBody("UNAUTHORIZED",
                                               "Authentication required"))
              ELSE IF ~hasRole
              THEN Respond(req, 403, ErrorBody("FORBIDDEN",
                                               "Insufficient permissions"))
              ELSE [req EXCEPT !.nexts = @ + 1, !.pc = "handler"]]
        /\ UNCHANGED <<clock, env, tok, verdict, expiredFor, store, tally>>

\* requireRoles taking a missing identity for one without roles
RequireRolesNoIdentityCheck(r) ==
    LET req == reqs[r]
        allowed == allowedRoles(req.route)
        userRoles == OrElse(Get(req.user, "roles"), Arr(<<>>))
        hasRole == \E i \in 1..Len(allowed) :
                      \E j \in 1..Len(userRoles.a) : userRoles.a[j] = allowed[i]
    IN  /\ req.pc = "roles"
        /\ reqs' = [reqs EXCEPT ![r] =
              IF FALSE
              THEN Respond(req, 401, ErrorBody("UNAUTHORIZED",
                                               "Authentication required"))
              ELSE IF ~hasRole
              THEN Respond(req, 403, ErrorBody("FORBIDDEN",
                                               "Insufficient permissions"))
              ELSE [req EXCEPT !.nexts = @ + 1, !.pc = "handler"]]
        /\ UNCHANGED <<clock, env, tok, verdict, expiredFor, store, tally>>

\* the middleware requireRoles(...allowedRoles) returns, run on request r
RequireRoles(r) ==
    LET req == reqs[r]
        allowed == allowedRoles(req.route)
        userRoles == OrElse(Get(req.user, "roles"), Arr(<<>>))
        hasRole == \E i \in 1..Len(allowed) :
                      \E j \in 1..Len(userRoles.a) : userRoles.a[j] = allowed[i]
    IN  /\ req.pc = "roles"
        /\ reqs' = [reqs EXCEPT ![r] =
              IF Falsy(req.user)
              THEN Respond(req, 401, ErrorBody("UNAUTHORIZED",
                                               "Authentication required"))
              ELSE IF ~hasRole
              THEN Respond(req, 403, ErrorBody("FORBIDDEN",
                                               "Insufficient permissions"))
              ELSE [req EXCEPT !.nexts = @ + 1, !.pc = "handler"]]
        /\ UNCHANGED <<clock, env, tok, verdict, expiredFor, store, tally>>

\* new ApiError(statusCode, code, message)
ApiError(statusCode, code, message) ==
    [name |-> "Error", message |-> message, statusCode |-> Num(statusCode),
     status |-> Undefined, code |-> Str(code), details |-> Null,
     isOperational |-> TRUE, stack |-> Stack("Error", message)]

\* the TypeError a property access on undefined or null raises
TypeError(message) ==
    [name |-> "TypeError", message |-> message, statusCode |-> Undefined,
     status |-> Undefined, code |-> Undefined, details |-> Undefined,
     isOperational |-> FALSE, stack |-> Stack("TypeError", message)]

\* req.params.identifier, as far as the handler looks into it: what it
\* starts with and whether the matching pattern accepts it
IdentifierInputs ==
    { [prefix |-> "did:vdid:", wellFormed |-> TRUE],
      [prefix |-> "did:vdid:", wellFormed |-> FALSE],
      [prefix |-> "0x", wellFormed |-> TRUE],
      [prefix |-> "", wellFormed |-> FALSE] }

isValidDID(id) == id.prefix = "did:vdid:" /\ id.wellFormed

isValidEthAddress(id) == id.prefix = "0x" /\ id.wellFormed

\* asyncHandler(fn) when fn throws err: the rejection goes to next(err)
Raise(req, err) == [req EXCEPT !.err = err, !.pc = "error"]

\* handler of GET /vscore
VscoreHandler(r) ==
    LET req == reqs[r]
    IN  /\ req.pc = "handler"
        /\ req.route = "GET /vscore"
        /\ reqs' = [reqs EXCEPT ![r] =
              IF req.user.t # "obj"
              THEN Raise(req, TypeError("Cannot read properties of undefined"))
              ELSE Respond(req, 200, [success |-> TRUE,
                                      data |-> [did |-> Get(req.user, "did")]])]
        /\ UNCHANGED <<clock, env, tok, verdict, expiredFor, store, tally>>

\* handler of GET /vscore/:identifier
VscoreByIdentifierHandler(r, identifier) ==
    LET req == reqs[r]
    IN  /\ req.pc = "handler"
        /\ req.route = "GET /vscore/:identifier"
        /\ reqs' = [reqs EXCEPT ![r] =
              IF identifier.prefix = "did:vdid:" /\ ~isValidDID(identifier)
              THEN Raise(req, ApiError(400, "INVALID_DID", "Invalid DID format"))
              ELSE IF identifier.prefix = "0x" /\ ~isValidEthAddress(identifier)
              THEN Raise(req, ApiError(400, "INVALID_ADDRESS",
                                       "Invalid wallet address format"))
              ELSE IF identifier.prefix \notin {"did:vdid:", "0x"}
              THEN Raise(req, ApiError(400, "INVALID_IDENTIFIER",
                                       "Invalid identifier format"))
              ELSE Respond(req, 200, [success |-> TRUE,
                                      data |-> [isPublic |-> Falsy(req.user)]])]
        /\ UNCHANGED <<clock, env, tok, verdict, expiredFor, store, tally>>

\* the body errorHandler writes: code, message and requestId, and in
\* development mode details and stack as well
ErrorEnvelope(err, message, requestId, development) ==
    IF development
    THEN [success |-> FALSE,
          error |-> [code |-> OrElse(err.code, Str("INTERNAL_ERROR")).s,
                     message |-> message, requestId |-> requestId,
                     details |-> OrElse(err.details, Null),
                     stack |-> err.stack]]
    ELSE [success |-> FALSE,
          error |-> [code |-> OrElse(err.code, Str("INTERNAL_ERROR")).s,
                     message |-> message, requestId |-> requestId]]

\* errorHandler passing a message on in development mode only
ErrorHandlerMasksOutsideDevelopment(r) ==
    LET req == reqs[r]
        err == req.err
        isOperational == err.isOperational
        development == Get(env, "NODE_ENV") = Str("development")
        declared == OrElse(OrElse(err.statusCode, err.status), Num(500)).n
        statusCode ==
            IF err.name = "ValidationError" THEN 400
            ELSE IF err.name = "JsonWebTokenError" THEN 401
            ELSE IF err.name = "TokenExpiredError" THEN 401
            ELSE IF err.message = "Not allowed by CORS" THEN 403
            ELSE declared
    IN  /\ req.pc = "error"
        /\ reqs' = [reqs EXCEPT ![r] =
              IF Len(req.responses) > 0
              THEN [req EXCEPT !.pc = "final"]
              ELSE Respond(req, statusCode,
                           ErrorEnvelope(err,
                                         IF development THEN err.message
                                         ELSE "An unexpected error occurred",
                                         req.id, development))]
        /\ UNCHANGED <<clock, env, tok, verdict, expiredFor, store, tally>>

\* errorHandler adding details and stack whatever the mode
ErrorHandlerAlwaysVerbose(r) ==
    LET req == reqs[r]
        err == req.err
        isOperational == err.isOperational
        development == Get(env, "NODE_ENV") = Str("development")
        declared == OrElse(OrElse(err.statusCode, err.status), Num(500)).n
        statusCode ==
            IF err.name = "ValidationError" THEN 400
            ELSE IF err.name = "JsonWebTokenError" THEN 401
            ELSE IF err.name = "TokenExpiredError" THEN 401
            ELSE IF err.message = "Not allowed by CORS" THEN 403
            ELSE declared
    IN  /\ req.pc = "error"
        /\ reqs' = [reqs EXCEPT ![r] =
              IF Len(req.responses) > 0
              THEN [req EXCEPT !.pc = "final"]
              ELSE Respond(req, statusCode,
                           ErrorEnvelope(err,
                                         IF isOperational THEN err.message
                                         ELSE "An unexpected error occurred",
                                         req.id, TRUE))]
        /\ UNCHANGED <<clock, env, tok, verdict, expiredFor, store, tally>>

\* errorHandler rendering the error whether or not the response is out
ErrorHandlerRendersAgain(r) ==
    LET req == reqs[r]
        err == req.err
        isOperational == err.isOperational
        development == Get(env, "NODE_ENV") = Str("development")
        declared == OrElse(OrElse(err.statusCode, err.status), Num(500)).n
        statusCode ==
            IF err.name = "ValidationError" THEN 400
            ELSE IF err.name = "JsonWebTokenError" THEN 401
            ELSE IF err.name = "TokenExpiredError" THEN 401
            ELSE IF err.message = "Not allowed by CORS" THEN 403
            ELSE declared
    IN  /\ req.pc = "error"
        /\ reqs' = [reqs EXCEPT ![r] =
              Respond(req, statusCode,
                      ErrorEnvelope(err,
                                    IF isOperational THEN err.message
                                    ELSE "An unexpected error occurred",
                                    req.id, development))]
        /\ UNCHANGED <<clock, env, tok, verdict, expiredFor, store, tally>>

\* the middleware errorHandler() returns, run on the error of request r
ErrorHandler(r) ==
    LET req == reqs[r]
        err == req.err
        isOperational == err.isOperational
        development == Get(env, "NODE_ENV") = Str("development")
        declared == OrElse(OrElse(err.statusCode, err.status), Num(500)).n
        statusCode ==
            IF err.name = "ValidationError" THEN 400
            ELSE IF err.name = "JsonWebTokenError" THEN 401
            ELSE IF err.name = "TokenExpiredError" THEN 401
            ELSE IF err.message = "Not allowed by CORS" THEN 403
            ELSE declared
    IN  /\ req.pc = "error"
        /\ reqs' = [reqs EXCEPT ![r] =
              IF Len(req.responses) > 0
              THEN [req EXCEPT !.pc = "final"]
              ELSE Respond(req, statusCode,
                           ErrorEnvelope(err,
                                         IF isOperational THEN err.message
                                         ELSE "An unexpected error occurred",
                                         req.id, development))]
        /\ UNCHANGED <<clock, env, tok, verdict, expiredFor, store, tally>>

\* values of process.env
EnvInputs ==
    { Obj(<<>>),
      Obj(<<[k |-> "JWT_SECRET", v |-> Str("")]>>),
      Obj(<<[k |-> "JWT_SECRET", v |-> Str("k1")]>>) }

\* values of the Authorization header; none stands for a request without it
AuthorizationInputs ==
    LET admin == createToken(ClaimsAdmin, Str("k1"), Text(Chars(<<"1", "h">>))).c
        user == createToken(ClaimsUser, Str("k1"), Undefined).c
    IN  { Text(<<>>),
          Text(Chars(<<"B", "a", "s", "i", "c", " ", "x">>)),
          Text(BearerPrefix),
          Text(BearerPrefix \o admin),
          Text(BearerPrefix \o user),
          Text(BearerPrefix
               \o createToken(ClaimsAdmin, Str("k1"), Text(Chars(<<"0", "h">>))).c),
          Text(BearerPrefix
               \o createToken(ClaimsAdmin, Str("k2"), Text(Chars(<<"1", "h">>))).c) }

HeaderInputs ==
    {Obj(<<>>)} \cup {Obj(<<[k |-> "authorization", v |-> h]>>) : h \in AuthorizationInputs}

Init ==
    /\ clock = Epoch
    /\ env \in EnvInputs
    /\ tok = NoToken
    /\ verdict = NoVerdict
    /\ expiredFor = {}
    /\ reqs = [r \in Requests |-> IdleRequest]
    /\ store = {}
    /\ tally = {}

\* request r comes in; requests take their numbers in order of arrival
Arrive(r, route, headers) ==
    /\ reqs[r].pc = "idle"
    /\ \A q \in Requests : q < r => reqs[q].pc # "idle"
    /\ reqs' = [reqs EXCEPT ![r] =
          [IdleRequest EXCEPT !.pc = FirstStage(route), !.route = route,
                              !.headers = headers]]
    /\ UNCHANGED <<clock, env, tok, verdict, expiredFor, store, tally>>

Next ==
    \/ \E r \in Requests, route \in ProtectedRoutes \cup OptionalRoutes,
          h \in HeaderInputs : Arrive(r, route, h)
    \/ \E r \in Requests : AuthMiddleware(r)
    \/ \E r \in Requests : OptionalAuthMiddleware(r)
    \/ \E r \in Requests : VscoreHandler(r)
    \/ \E r \in Requests, id \in IdentifierInputs : VscoreByIdentifierHandler(r, id)
    \/ \E r \in Requests : ErrorHandler(r)

Spec == Init /\ [][Next]_vars

----------------------------------------------------------------------------
(* Routes behind requireRoles *)

\* handler of a route behind requireRoles
GuardedHandler(r) ==
    LET req == reqs[r]
    IN  /\ req.pc = "handler"
        /\ req.route \in GuardedRoutes
        /\ reqs' = [reqs EXCEPT ![r] =
              Respond(req, 200, [success |-> TRUE,
                                 data |-> [did |-> Get(req.user, "did")]])]
        /\ UNCHANGED <<clock, env, tok, verdict, expiredFor, store, tally>>

\* claims whose role differs from an allowed one in case only
ClaimsAdminCase ==
    Obj(<<[k |-> "sub", v |-> Str("u6")],
          [k |-> "roles", v |-> Arr(<<Str("Admin")>>)]>>)

\* claims with two roles, the second one allowed
ClaimsUserOps ==
    Obj(<<[k |-> "sub", v |-> Str("u7")],
          [k |-> "roles", v |-> Arr(<<Str("user"), Str("ops")>>)]>>)

\* Authorization headers of the requests to the guarded routes: tokens of
\* every role set, one without roles, one signed with another secret
GuardAuthorizationInputs ==
    LET OneHour == Text(Chars(<<"1", "h">>))
    IN  { Text(BearerPrefix \o createToken(ClaimsAdmin, Str("k1"), OneHour).c),
          Text(BearerPrefix \o createToken(ClaimsUser, Str("k1"), OneHour).c),
          Text(BearerPrefix \o createToken(ClaimsAdminCase, Str("k1"), OneHour).c),
          Text(BearerPrefix \o createToken(ClaimsUserOps, Str("k1"), OneHour).c),
          Text(BearerPrefix \o createToken(ClaimsOwnExp, Str("k1"), OneHour).c),
          Text(BearerPrefix \o createToken(ClaimsAdmin, Str("k2"), OneHour).c) }

GuardHeaderInputs ==
    {Obj(<<>>)}
    \cup {Obj(<<[k |-> "authorization", v |-> h]>>) : h \in GuardAuthorizationInputs}

NextGuard ==
    \/ \E r \in Requests, route \in {"GET /admin", "GET /staff"},
          h \in GuardHeaderInputs : Arrive(r, route, h)
    \/ \E r \in Requests : Arrive(r, "GET /bare", Obj(<<>>))
    \/ \E r \in Requests : AuthMiddleware(r)
    \/ \E r \in Requests : OptionalAuthMiddleware(r)
    \/ \E r \in Requests : RequireRoles(r)
    \/ \E r \in Requests : GuardedHandler(r)

SpecGuard == Init /\ [][NextGuard]_vars

----------------------------------------------------------------------------
(* Origin policy: cors.config.js *)

Comma == Ch(",")
Space == Ch(" ")

\* s.split(',')
RECURSIVE SplitComma(_)
SplitComma(s) ==
    IF \A i \in 1..Len(s) : s[i] # Comma THEN <<s>>
    ELSE LET i == CHOOSE j \in 1..Len(s) :
                     s[j] = Comma /\ \A h \in 1..(j - 1) : s[h] # Comma
         IN  <<SubSeq(s, 1, i - 1)>> \o SplitComma(SubSeq(s, i + 1, Len(s)))

\* s.trim()
RECURSIVE Trim(_)
Trim(s) ==
    IF Len(s) > 0 /\ s[1] = Space THEN Trim(Tail(s))
    ELSE IF Len(s) > 0 /\ s[Len(s)] = Space THEN Trim(SubSeq(s, 1, Len(s) - 1))
    ELSE s

\* an origin string: a scheme, a host with its port, and whatever follows
Origin(parts) == Text(Chars(parts))

DefaultOrigins ==
    << Origin(<<"http://", "localhost:3000">>),
       Origin(<<"http://", "localhost:4173">>),
       Origin(<<"http://", "localhost:5173">>) >>

\* parseAllowedOrigins(): the entries of CORS_ORIGINS, trimmed, the empty ones
\* dropped; the localhost origins when the variable is unset or empty
parseAllowedOrigins ==
    LET envOrigins == OrElse(Get(env, "CORS_ORIGINS"), Text(<<>>))
        entries == SplitComma(envOrigins.c)
        trimmed == [i \in 1..Len(entries) |-> Trim(entries[i])]
        kept == SelectSeq(trimmed, LAMBDA e : Len(e) > 0)
    IN  IF Falsy(envOrigins) THEN DefaultOrigins
        ELSE [i \in 1..Len(kept) |-> Text(kept[i])]

\* isValidOriginFormat(origin): new URL(origin) parses and its protocol is
\* http: or https:
isValidOriginFormat(origin) ==
    /\ Len(origin.c) >= 2
    /\ origin.c[1] \in {Ch("http://"), Ch("https://")}
    /\ \A i \in 1..Len(origin.c) : origin.c[i] # Space

\* the whitelist createCorsOptions() keeps for the life of the process
allowedOrigins == parseAllowedOrigins

\* process.env.NODE_ENV === 'development'
isDevelopment == Get(env, "NODE_ENV") = Str("development")

\* the entries createCorsOptions() reports as badly formed when it starts
InvalidOriginsLogged ==
    {allowedOrigins[i] : i \in {j \in 1..Len(allowedOrigins) :
                                   ~isValidOriginFormat(allowedOrigins[j])}}

\* allowedOrigins.includes(origin)
Includes(list, x) == \E i \in 1..Len(list) : list[i] = x

\* new Error('Not allowed by CORS') with status 403
CorsError ==
    [name |-> "Error", message |-> "Not allowed by CORS",
     statusCode |-> Undefined, status |-> Num(403), code |-> Undefined,
     details |-> Undefined, isOperational |-> FALSE,
     stack |-> Stack("Error", "Not allowed by CORS")]

\* the origin policy accepting an origin that only starts like an entry
CorsOriginPrefixMatch(r) ==
    LET req == reqs[r]
        origin == Get(req.headers, "origin")
    IN  /\ req.pc = "cors"
        /\ reqs' = [reqs EXCEPT ![r] =
              IF Falsy(origin)
                 \/ \E i \in 1..Len(allowedOrigins) :
                       StartsWith(origin.c, allowedOrigins[i].c)
              THEN [req EXCEPT !.nexts = @ + 1, !.pc = "rateLimit"]
              ELSE [req EXCEPT !.err = CorsError, !.pc = "corsError"]]
        /\ UNCHANGED <<clock, env, tok, verdict, expiredFor, store, tally>>

\* the limiter in front of the origin policy: a request the policy refuses
\* has been counted
CorsOriginCountsRefused(r) ==
    LET req == reqs[r]
        origin == Get(req.headers, "origin")
        refused == ~Falsy(origin) /\ ~Includes(allowedOrigins, origin)
        key == OrElse(req.remoteAddress, Str("unknown"))
        rec == IF \E x \in store : x.key = key
               THEN [(CHOOSE x \in store : x.key = key) EXCEPT !.count = @ + 1]
               ELSE [key |-> key, count |-> 1, windowStart |-> clock]
    IN  /\ req.pc = "cors"
        /\ reqs' = [reqs EXCEPT ![r] =
              IF refused
              THEN [req EXCEPT !.err = CorsError, !.pc = "corsError"]
              ELSE [req EXCEPT !.nexts = @ + 1, !.pc = "rateLimit"]]
        /\ store' = IF refused
                    THEN {x \in store : x.key # key} \cup {rec}
                    ELSE store
        /\ UNCHANGED <<clock, env, tok, verdict, expiredFor, tally>>

\* cors(corsOptions) on request r: the origin function of createCorsOptions
\* decides, a refusal goes to next(err)
CorsOrigin(r) ==
    LET req == reqs[r]
        origin == Get(req.headers, "origin")
    IN  /\ req.pc = "cors"
        /\ reqs' = [reqs EXCEPT ![r] =
              IF Falsy(origin)
              THEN [req EXCEPT !.nexts = @ + 1, !.pc = "rateLimit"]
              ELSE IF Includes(allowedOrigins, origin)
              THEN [req EXCEPT !.nexts = @ + 1, !.pc = "rateLimit"]
              ELSE [req EXCEPT !.err = CorsError, !.pc = "corsError"]]
        /\ UNCHANGED <<clock, env, tok, verdict, expiredFor, store, tally>>

\* the body corsErrorHandler writes; JSON leaves an undefined details out
CorsErrorBody(details) ==
    IF details = Undefined
    THEN [success |-> FALSE,
          error |-> [code |-> "CORS_ERROR",
                     message |-> "Cross-origin request not allowed"]]
    ELSE [success |-> FALSE,
          error |-> [code |-> "CORS_ERROR",
                     message |-> "Cross-origin request not allowed",
                     details |-> details]]

\* corsErrorHandler naming the origin whatever the mode
CorsErrorHandlerAlwaysDetails(r) ==
    LET req == reqs[r]
    IN  /\ req.pc = "corsError"
        /\ reqs' = [reqs EXCEPT ![r] =
              IF req.err.message = "Not allowed by CORS"
              THEN Respond(req, 403,
                     CorsErrorBody([origin |-> Get(req.headers, "origin")]))
              ELSE [req EXCEPT !.pc = "error"]]
        /\ UNCHANGED <<clock, env, tok, verdict, expiredFor, store, tally>>

\* corsErrorHandler(err, req, res, next), the first error middleware
CorsErrorHandler(r) ==
    LET req == reqs[r]
    IN  /\ req.pc = "corsError"
        /\ reqs' = [reqs EXCEPT ![r] =
              IF req.err.message = "Not allowed by CORS"
              THEN Respond(req, 403,
                     CorsErrorBody(IF isDevelopment
                                   THEN [origin |-> Get(req.headers, "origin")]
                                   ELSE Undefined))
              ELSE [req EXCEPT !.pc = "error"]]
        /\ UNCHANGED <<clock, env, tok, verdict, expiredFor, store, tally>>

----------------------------------------------------------------------------
(* Rate limiter: security.middleware.js *)

\* parseInt(process.env[name])
EnvInt(name) ==
    LET v == Get(env, name)
    IN  IF v.t = "text" THEN parseInt(v.c) ELSE NaN

\* parseInt(process.env.RATE_LIMIT_WINDOW_MS) || 15 * 60 * 1000
windowMs == OrElse(EnvInt("RATE_LIMIT_WINDOW_MS"), Num(15 * 60 * 1000)).n

\* parseInt(process.env.RATE_LIMIT_MAX_REQUESTS) || 100
max == OrElse(EnvInt("RATE_LIMIT_MAX_REQUESTS"), Num(100)).n

\* Math.ceil(a / d), d positive
JsCeilDiv(a, d) == -((-a) \div d)

\* the body the limiter sends with 429
RateLimitMessage ==
    [success |-> FALSE,
     error |-> [code |-> "RATE_LIMIT_EXCEEDED",
                message |-> "Too many requests, please try again later",
                retryAfter |-> JsCeilDiv(windowMs, 1000)]]

UnknownKey == Text(Chars(<<"unknown">>))

\* keyGenerator looking at the address of the socket before the header
keyGeneratorSocketFirst(req) ==
    LET forwarded == Get(req.headers, "x-forwarded-for")
        first == IF forwarded.t = "text"
                 THEN Text(Trim(SplitComma(forwarded.c)[1]))
                 ELSE Undefined
    IN  OrElse(OrElse(req.remoteAddress, first), UnknownKey)

\* keyGenerator(req): the first entry of X-Forwarded-For, trimmed, else the
\* address of the socket, else 'unknown'
keyGenerator(req) ==
    LET forwarded == Get(req.headers, "x-forwarded-for")
        first == IF forwarded.t = "text"
                 THEN Text(Trim(SplitComma(forwarded.c)[1]))
                 ELSE Undefined
    IN  OrElse(OrElse(first, req.remoteAddress), UnknownKey)

\* skip(req) exempting the root health check only
skipRootHealthOnly(req) == req.route = "/health"

\* skip(req): req.path is one of the two health checks
skip(req) == req.route = "/health" \/ req.route = "/api/health"

\* what the library put in place of the value of a header it sets
LibraryValue == [t |-> "library"]

\* standardHeaders: true makes the limiter set these three on the response
\* of every request it counts
RateLimitHeaders ==
    { [k |-> "RateLimit-Limit", v |-> Num(max)],
      [k |-> "RateLimit-Remaining", v |-> LibraryValue],
      [k |-> "RateLimit-Reset", v |-> LibraryValue] }

\* res after the limiter has set its headers
Limited(req) == [req EXCEPT !.resHeaders = @ \cup RateLimitHeaders]

\* the routes of routes/identity.routes.js that run validateBody first
ValidatedRoutes == {"POST /api/identity/create"}

\* the paths a handler is mounted on without a middleware before it
PlainRoutes ==
    {"/health", "/api/health", "/vscore/leaderboard/top", "GET /fails"}

\* where the chain of server.js leads after the middleware every request
\* runs: the first middleware of the matching route, its handler, or
\* notFoundHandler when nothing matches
Routed(route) ==
    IF route \in AuthRoutes \cup OptionalAuthRoutes \cup GuardedRoutes
    THEN FirstStage(route)
    ELSE IF route \in ValidatedRoutes THEN "validate"
    ELSE IF route \in PlainRoutes THEN "handler"
    ELSE "notFound"

\* the Rate Window Record of a key after one more request at instant now: a
\* record that is missing, or whose window has elapsed, starts a new window
\* with this request as its first; read, compare and write are one step
Increment(key, now, window) ==
    IF \E x \in store : x.key = key /\ now - x.windowStart < window
    THEN LET x == CHOOSE y \in store : y.key = key
         IN  [x EXCEPT !.count = @ + 1]
    ELSE [key |-> key, count |-> 1, windowStart |-> now]

\* the tally of a key after a decision in the window that began at start:
\* how many requests of the key the limiter admitted and refused in that
\* window, and whether it refused one in the window before
Tallied(key, start, admitted) ==
    LET known == \E x \in tally : x.key = key
        old == CHOOSE x \in tally : x.key = key
        same == known /\ old.start = start
    IN  [key |-> key, start |-> start,
         admitted |-> (IF same THEN old.admitted ELSE 0)
                         + (IF admitted THEN 1 ELSE 0),
         refused |-> (IF same THEN old.refused ELSE 0)
                        + (IF admitted THEN 0 ELSE 1),
         refusedBefore |-> IF same THEN old.refusedBefore
                           ELSE known /\ old.refused > 0]

\* the limiter refusing the request that reaches max
RateLimiterOffByOne(r) ==
    LET req == reqs[r]
        key == keyGenerator(req)
        rec == Increment(key, clock, windowMs)
    IN  /\ req.pc = "rateLimit"
        /\ IF skip(req)
           THEN /\ reqs' = [reqs EXCEPT ![r] =
                      [req EXCEPT !.nexts = @ + 1, !.pc = Routed(req.route)]]
                /\ UNCHANGED <<store, tally>>
           ELSE /\ store' = {x \in store : x.key # key} \cup {rec}
                /\ tally' = {x \in tally : x.key # key}
                               \cup {Tallied(key, rec.windowStart, ~(rec.count >= max))}
                /\ reqs' = [reqs EXCEPT ![r] =
                      IF rec.count >= max
                      THEN Respond(Limited(Stamp(req)), 429, RateLimitMessage)
                      ELSE [Limited(req) EXCEPT !.nexts = @ + 1,
                                                !.pc = Routed(req.route)]]
        /\ UNCHANGED <<clock, env, tok, verdict, expiredFor>>

\* the limiter taking the window for a number of seconds
RateLimiterWindowInSeconds(r) ==
    LET req == reqs[r]
        key == keyGenerator(req)
        rec == Increment(key, clock, windowMs * 1000)
    IN  /\ req.pc = "rateLimit"
        /\ IF skip(req)
           THEN /\ reqs' = [reqs EXCEPT ![r] =
                      [req EXCEPT !.nexts = @ + 1, !.pc = Routed(req.route)]]
                /\ UNCHANGED <<store, tally>>
           ELSE /\ store' = {x \in store : x.key # key} \cup {rec}
                /\ tally' = {x \in tally : x.key # key}
                               \cup {Tallied(key, rec.windowStart, ~(rec.count > max))}
                /\ reqs' = [reqs EXCEPT ![r] =
                      IF rec.count > max
                      THEN Respond(Limited(Stamp(req)), 429, RateLimitMessage)
                      ELSE [Limited(req) EXCEPT !.nexts = @ + 1,
                                                !.pc = Routed(req.route)]]
        /\ UNCHANGED <<clock, env, tok, verdict, expiredFor>>

\* the limiter losing the increment of a request that overlaps another one of its key
RateLimiterLostUpdate(r) ==
    LET req == reqs[r]
        key == keyGenerator(req)
        rec == IF \E q \in Requests \ {r} :
                    reqs[q].pc = "handler" /\ keyGenerator(reqs[q]) = key
               THEN [Increment(key, clock, windowMs) EXCEPT !.count = @ - 1]
               ELSE Increment(key, clock, windowMs)
    IN  /\ req.pc = "rateLimit"
        /\ IF skip(req)
           THEN /\ reqs' = [reqs EXCEPT ![r] =
                      [req EXCEPT !.nexts = @ + 1, !.pc = Routed(req.route)]]
                /\ UNCHANGED <<store, tally>>
           ELSE /\ store' = {x \in store : x.key # key} \cup {rec}
                /\ tally' = {x \in tally : x.key # key}
                               \cup {Tallied(key, rec.windowStart, ~(rec.count > max))}
                /\ reqs' = [reqs EXCEPT ![r] =
                      IF rec.count > max
                      THEN Respond(Limited(Stamp(req)), 429, RateLimitMessage)
                      ELSE [Limited(req) EXCEPT !.nexts = @ + 1,
                                                !.pc = Routed(req.route)]]
        /\ UNCHANGED <<clock, env, tok, verdict, expiredFor>>

\* the limiter setting its headers only on the requests it admits
RateLimiterHeadersWhenAdmitted(r) ==
    LET req == reqs[r]
        key == keyGenerator(req)
        rec == Increment(key, clock, windowMs)
    IN  /\ req.pc = "rateLimit"
        /\ IF skip(req)
           THEN /\ reqs' = [reqs EXCEPT ![r] =
                      [req EXCEPT !.nexts = @ + 1, !.pc = Routed(req.route)]]
                /\ UNCHANGED <<store, tally>>
           ELSE /\ store' = {x \in store : x.key # key} \cup {rec}
                /\ tally' = {x \in tally : x.key # key}
                               \cup {Tallied(key, rec.windowStart, ~(rec.count > max))}
                /\ reqs' = [reqs EXCEPT ![r] =
                      IF rec.count > max
                      THEN Respond(Stamp(req), 429, RateLimitMessage)
                      ELSE [Limited(req) EXCEPT !.nexts = @ + 1,
                                                !.pc = Routed(req.route)]]
        /\ UNCHANGED <<clock, env, tok, verdict, expiredFor>>

\* the middleware rateLimit({windowMs, max, message, keyGenerator, skip}) on request r
RateLimiter(r) ==
    LET req == reqs[r]
        key == keyGenerator(req)
        rec == Increment(key, clock, windowMs)
    IN  /\ req.pc = "rateLimit"
        /\ IF skip(req)
           THEN /\ reqs' = [reqs EXCEPT ![r] =
                      [req EXCEPT !.nexts = @ + 1, !.pc = Routed(req.route)]]
                /\ UNCHANGED <<store, tally>>
           ELSE /\ store' = {x \in store : x.key # key} \cup {rec}
                /\ tally' = {x \in tally : x.key # key}
                               \cup {Tallied(key, rec.windowStart, ~(rec.count > max))}
                /\ reqs' = [reqs EXCEPT ![r] =
                      IF rec.count > max
                      THEN Respond(Limited(Stamp(req)), 429, RateLimitMessage)
                      ELSE [Limited(req) EXCEPT !.nexts = @ + 1,
                                                !.pc = Routed(req.route)]]
        /\ UNCHANGED <<clock, env, tok, verdict, expiredFor>>

\* handler of GET /health and of GET /api/health
HealthHandler(r) ==
    LET req == reqs[r]
    IN  /\ req.pc = "handler"
        /\ req.route \in {"/health", "/api/health"}
        /\ reqs' = [reqs EXCEPT ![r] =
              Respond(req, 200, [success |-> TRUE,
                                 data |-> [status |-> "healthy"]])]
        /\ UNCHANGED <<clock, env, tok, verdict, expiredFor, store, tally>>

\* handler of GET /vscore/leaderboard/top, a route without auth middleware
LeaderboardHandler(r) ==
    LET req == reqs[r]
    IN  /\ req.pc = "handler"
        /\ req.route = "/vscore/leaderboard/top"
        /\ reqs' = [reqs EXCEPT ![r] =
              Respond(req, 200, [success |-> TRUE,
                                 data |-> [leaderboard |-> <<>>]])]
        /\ UNCHANGED <<clock, env, tok, verdict, expiredFor, store, tally>>

\* number of requests the records of the store count together
MaxHits == 4

RECURSIVE TotalHits(_)
TotalHits(records) ==
    IF records = {} THEN 0
    ELSE LET x == CHOOSE y \in records : TRUE
         IN  x.count + TotalHits(records \ {x})

\* a request comes in on a connection and enters the middleware chain
Connect(r, path, headers, remoteAddress) ==
    /\ reqs[r].pc = "idle"
    /\ \A q \in Requests : q < r => reqs[q].pc # "idle"
    /\ TotalHits(store)
          + Cardinality({q \in Requests : reqs[q].pc \in {"cors", "rateLimit"}})
          < MaxHits
    /\ reqs' = [reqs EXCEPT ![r] =
          [IdleRequest EXCEPT !.pc = "cors", !.route = path,
                              !.headers = headers,
                              !.remoteAddress = remoteAddress]]
    /\ UNCHANGED <<clock, env, tok, verdict, expiredFor, store, tally>>

\* the response of r is out and its connection serves the next request
Close(r) ==
    /\ reqs[r].pc = "done"
    /\ reqs' = [reqs EXCEPT ![r] = IdleRequest]
    /\ UNCHANGED <<clock, env, tok, verdict, expiredFor, store, tally>>

----------------------------------------------------------------------------
(* The chain of server.js in front of the routes: cors, then the limiter *)

AddressB == Text(Chars(<<"10.0.0.2">>))

\* Origin headers: well-formed ones, one that differs from a.test by a
\* trailing slash, one by a subdomain, the empty one, and two that are no URLs
OriginInputs ==
    { Text(<<>>),
      Origin(<<"http://", "a.test">>),
      Origin(<<"http://", "b.test">>),
      Origin(<<"http://", "a.test", "/">>),
      Origin(<<"http://", "sub.", "a.test">>),
      Origin(<<"http://", "localhost:3000">>),
      Origin(<<"null">>),
      Origin(<<"a.test">>) }

OriginHeaderInputs ==
    {Obj(<<>>)} \cup {Obj(<<[k |-> "origin", v |-> o]>>) : o \in OriginInputs}

\* values of CORS_ORIGINS: one entry; entries with blanks and an empty entry
\* between them; entries that are no http or https URLs
CorsOriginsInputs ==
    { Origin(<<"http://", "a.test">>),
      Origin(<<" ", "http://", "a.test", " ", ",", ",", " ", "http://", "b.test", "/">>),
      Origin(<<"a.test", ",", "null", ",", "ftp://", "a.test">>) }

OriginEnvInputs ==
    LET mode == {Obj(<<>>),
                 Obj(<<[k |-> "NODE_ENV", v |-> Str("development")]>>),
                 Obj(<<[k |-> "NODE_ENV", v |-> Str("production")]>>)}
    IN  mode \cup {Assign(e, "CORS_ORIGINS", o) :
                      e \in mode \ {Obj(<<>>)}, o \in CorsOriginsInputs}

InitOrigin ==
    /\ clock = Epoch
    /\ env \in OriginEnvInputs
    /\ tok = NoToken
    /\ verdict = NoVerdict
    /\ expiredFor = {}
    /\ reqs = [r \in Requests |-> IdleRequest]
    /\ store = {}
    /\ tally = {}

\* requests of a client without known address to a route without auth
\* middleware, the limiter working with the window and the maximum it has
\* when the environment sets neither
NextOrigin ==
    \/ \E r \in Requests, h \in OriginHeaderInputs :
          Connect(r, "/vscore/leaderboard/top", h, Undefined)
    \/ \E r \in Requests : CorsOrigin(r)
    \/ \E r \in Requests : CorsErrorHandler(r)
    \/ \E r \in Requests : RateLimiter(r)
    \/ \E r \in Requests : LeaderboardHandler(r)
    \/ \E r \in Requests : Close(r)

SpecOrigin == InitOrigin /\ [][NextOrigin]_vars

\* values of process.env for the limiter: two requests in two seconds, and
\* one request in a second and a half
RateEnvInputs ==
    { Obj(<<[k |-> "RATE_LIMIT_WINDOW_MS", v |-> Text(Chars(<<"2", "0", "0", "0">>))],
            [k |-> "RATE_LIMIT_MAX_REQUESTS", v |-> Text(Chars(<<"2">>))]>>),
      Obj(<<[k |-> "RATE_LIMIT_WINDOW_MS", v |-> Text(Chars(<<"1", "5", "0", "0">>))],
            [k |-> "RATE_LIMIT_MAX_REQUESTS", v |-> Text(Chars(<<"1">>))]>>) }

\* a client behind a proxy
ProxiedClient ==
    [headers |-> Obj(<<[k |-> "x-forwarded-for",
                        v |-> Text(Chars(<<" ", "10.0.0.1", ",", " ", "10.0.0.9">>))]>>),
     remoteAddress |-> AddressB]

\* the clients of the limiter: the one behind a proxy and one on its own
\* address
ClientInputs ==
    { ProxiedClient,
      [headers |-> Obj(<<>>), remoteAddress |-> AddressB] }

HealthPaths == {"/health", "/api/health"}

RateClock == {Epoch + 1000, Epoch + 2000}

InitRate ==
    /\ clock = Epoch
    /\ env \in RateEnvInputs
    /\ tok = NoToken
    /\ verdict = NoVerdict
    /\ expiredFor = {}
    /\ reqs = [r \in Requests |-> IdleRequest]
    /\ store = {}
    /\ tally = {}

NextRate ==
    \/ \E r \in Requests, c \in ClientInputs :
          Connect(r, "/vscore/leaderboard/top", c.headers, c.remoteAddress)
    \/ \E r \in Requests, path \in HealthPaths :
          Connect(r, path, ProxiedClient.headers, ProxiedClient.remoteAddress)
    \/ \E r \in Requests : CorsOrigin(r)
    \/ \E r \in Requests : RateLimiter(r)
    \/ \E r \in Requests : HealthHandler(r)
    \/ \E r \in Requests : LeaderboardHandler(r)
    \/ \E r \in Requests : Close(r)
    \/ \E t \in RateClock : Tick(t)

SpecRate == InitRate /\ [][NextRate]_vars

----------------------------------------------------------------------------
(* The whole chain of server.js: request id, cors, limiter, routes, errors *)

\* res.setHeader(name, value)
SetHeader(headers, name, value) ==
    {x \in headers : x.k # name} \cup {[k |-> name, v |-> value]}

\* the identifier requestIdMiddleware has at hand for request r: req_ and
\* sixteen characters of a fresh uuid, which no other request gets
MintedId(r) == Text(Chars(<<"req_", ToString(r)>>))

MintedIds == {MintedId(r) : r \in Requests}

\* requestIdMiddleware minting an identifier whatever the request brings
RequestIdMiddlewareAlwaysMints(r, minted) ==
    LET req == reqs[r]
    IN  /\ req.pc = "requestId"
        /\ reqs' = [reqs EXCEPT ![r] =
              [req EXCEPT !.id = minted,
                          !.resHeaders = SetHeader(@, "X-Request-ID", minted),
                          !.nexts = @ + 1, !.pc = "cors"]]
        /\ UNCHANGED <<clock, env, tok, verdict, expiredFor, store, tally>>

\* the middleware requestIdMiddleware() returns, the first of the chain
RequestIdMiddleware(r, minted) ==
    LET req == reqs[r]
        id == OrElse(Get(req.headers, "x-request-id"), minted)
    IN  /\ req.pc = "requestId"
        /\ reqs' = [reqs EXCEPT ![r] =
              [req EXCEPT !.id = id,
                          !.resHeaders = SetHeader(@, "X-Request-ID", id),
                          !.nexts = @ + 1, !.pc = "cors"]]
        /\ UNCHANGED <<clock, env, tok, verdict, expiredFor, store, tally>>

\* the strings the pattern /^0x[a-fA-F0-9]{40}$/ accepts, among those the
\* requests bring
WellFormedAddresses == {"0x52908400098527886E0F7030069857D2E4169EE7"}

\* typeof value
TypeOf(v) ==
    CASE v.t \in {"str", "text"} -> "string"
      [] v.t \in {"num", "nan"} -> "number"
      [] v.t = "undef" -> "undefined"
      [] OTHER -> "object"

\* config.pattern.test(value)
PatternTest(v) == v.t = "str" /\ v.s \in WellFormedAddresses

\* the errors validateBody collects for the schema of POST /api/identity/create:
\* walletAddress is required, a string, and matches the pattern
ValidationErrors(body) ==
    LET value == Get(body, "walletAddress")
        missing == value.t \in {"undef", "null"} \/ value = Str("")
    IN  (IF missing THEN <<"Missing required field: walletAddress">> ELSE <<>>)
        \o (IF value # Undefined /\ TypeOf(value) # "string"
            THEN <<"Field 'walletAddress' must be of type string">> ELSE <<>>)
        \o (IF value # Undefined /\ ~PatternTest(value)
            THEN <<"Field 'walletAddress' has invalid format">> ELSE <<>>)

\* the body validateBody sends with 400
ValidationBody(errors, requestId) ==
    [success |-> FALSE,
     error |-> [code |-> "VALIDATION_ERROR",
                message |-> "Request validation failed",
                details |-> errors, requestId |-> requestId]]

\* validateBody answering 400 and calling next() all the same
ValidateBodyFallsThrough(r) ==
    LET req == reqs[r]
        errors == ValidationErrors(OrElse(req.body, Obj(<<>>)))
        sent == IF Len(errors) > 0
                THEN Respond(req, 400, ValidationBody(errors, req.id))
                ELSE req
    IN  /\ req.pc = "validate"
        /\ reqs' = [reqs EXCEPT ![r] =
              [sent EXCEPT !.nexts = @ + 1, !.pc = "handler"]]
        /\ UNCHANGED <<clock, env, tok, verdict, expiredFor, store, tally>>

\* the middleware validateBody(schema) returns, on request r
ValidateBody(r) ==
    LET req == reqs[r]
        errors == ValidationErrors(OrElse(req.body, Obj(<<>>)))
    IN  /\ req.pc = "validate"
        /\ reqs' = [reqs EXCEPT ![r] =
              IF Len(errors) > 0
              THEN Respond(req, 400, ValidationBody(errors, req.id))
              ELSE [req EXCEPT !.nexts = @ + 1, !.pc = "handler"]]
        /\ UNCHANGED <<clock, env, tok, verdict, expiredFor, store, tally>>

\* handler of POST /api/identity/create
IdentityCreateHandler(r) ==
    LET req == reqs[r]
        walletAddress == Get(req.body, "walletAddress")
    IN  /\ req.pc = "handler"
        /\ req.route = "POST /api/identity/create"
        /\ reqs' = [reqs EXCEPT ![r] =
              IF req.body.t # "obj"
              THEN Raise(req, TypeError("Cannot destructure property of undefined"))
              ELSE IF ~PatternTest(walletAddress)
              THEN Raise(req, ApiError(400, "INVALID_ADDRESS",
                                       "Invalid wallet address format"))
              ELSE Respond(req, 201, [success |-> TRUE,
                                      data |-> [walletAddress |-> walletAddress]])]
        /\ UNCHANGED <<clock, env, tok, verdict, expiredFor, store, tally>>

\* the middleware notFoundHandler() returns: no route took the request
NotFoundHandler(r) ==
    LET req == reqs[r]
    IN  /\ req.pc = "notFound"
        /\ reqs' = [reqs EXCEPT ![r] =
              Respond(req, 404,
                      [success |-> FALSE,
                       error |-> [code |-> "NOT_FOUND",
                                  message |-> <<"Route", req.route, "not found">>,
                                  requestId |-> req.id]])]
        /\ UNCHANGED <<clock, env, tok, verdict, expiredFor, store, tally>>

\* asyncHandler without its catch: the error of the handler goes nowhere
FailingHandlerSwallows(r, err, responded) ==
    LET req == reqs[r]
        sent == IF responded
                THEN Respond(req, 200, [success |-> TRUE, data |-> [partial |-> TRUE]])
                ELSE req
    IN  /\ req.pc = "handler"
        /\ req.route = "GET /fails"
        /\ reqs' = [reqs EXCEPT ![r] = [sent EXCEPT !.err = err, !.pc = "rejected"]]
        /\ UNCHANGED <<clock, env, tok, verdict, expiredFor, store, tally>>

\* asyncHandler(fn) for a handler fn that fails with err, after it has
\* answered when responded says so: the error goes to next(err), whose first
\* error middleware is corsErrorHandler
FailingHandler(r, err, responded) ==
    LET req == reqs[r]
        sent == IF responded
                THEN Respond(req, 200, [success |-> TRUE, data |-> [partial |-> TRUE]])
                ELSE req
    IN  /\ req.pc = "handler"
        /\ req.route = "GET /fails"
        /\ reqs' = [reqs EXCEPT ![r] = [sent EXCEPT !.err = err, !.pc = "corsError"]]
        /\ UNCHANGED <<clock, env, tok, verdict, expiredFor, store, tally>>

\* what Express does with an error no error middleware took: on a response
\* already sent it closes the connection, else it answers by itself
FinalHandler(r) ==
    LET req == reqs[r]
        status == OrElse(OrElse(req.err.status, req.err.statusCode), Num(500)).n
    IN  /\ req.pc = "final"
        /\ reqs' = [reqs EXCEPT ![r] =
              IF Len(req.responses) > 0
              THEN [req EXCEPT !.pc = "done"]
              ELSE Respond(req, status, [success |-> FALSE, error |-> [html |-> TRUE]])]
        /\ UNCHANGED <<clock, env, tok, verdict, expiredFor, store, tally>>

\* a request comes in with its body and meets requestIdMiddleware first
Accept(r, path, headers, remoteAddress, body) ==
    /\ reqs[r].pc = "idle"
    /\ \A q \in Requests : q < r => reqs[q].pc # "idle"
    /\ TotalHits(store)
          + Cardinality({q \in Requests :
                            reqs[q].pc \in {"requestId", "cors", "rateLimit"}})
          < MaxHits
    /\ reqs' = [reqs EXCEPT ![r] =
          [IdleRequest EXCEPT !.pc = "requestId", !.route = path,
                              !.headers = headers,
                              !.remoteAddress = remoteAddress,
                              !.body = body]]
    /\ UNCHANGED <<clock, env, tok, verdict, expiredFor, store, tally>>

\* a request: where it goes, its headers, the address of its socket, its body
Request(path, headers, remoteAddress, body) ==
    [path |-> path, headers |-> Obj(headers), remoteAddress |-> remoteAddress,
     body |-> body]

\* inbound X-Request-ID headers: one that names the request and an empty one
InboundId == Text(Chars(<<"rid-1">>))

\* the requests of the whole chain: a health check; GET /vscore without a
\* token; an identity the guard of GET /admin lets through and one it
\* refuses; a body
\* validateBody refuses and one it lets through; a path no route takes; a
\* handler that fails; a request of a foreign origin
ChainInputs ==
    LET admin == createToken(ClaimsAdmin, Str("k1"), Text(Chars(<<"1", "h">>))).c
        user == createToken(ClaimsUser, Str("k1"), Undefined).c
    IN  { Request("/health", <<>>, AddressB, Undefined),
          Request("GET /vscore", <<[k |-> "x-request-id", v |-> InboundId]>>,
                  AddressB, Undefined),
          Request("GET /admin",
                  <<[k |-> "authorization", v |-> Text(BearerPrefix \o admin)]>>,
                  AddressB, Undefined),
          Request("GET /admin",
                  <<[k |-> "authorization", v |-> Text(BearerPrefix \o user)],
                    [k |-> "x-request-id", v |-> Text(<<>>)]>>,
                  AddressB, Undefined),
          Request("POST /api/identity/create", <<>>, AddressB,
                  Obj(<<[k |-> "walletAddress", v |-> Str("0xabc")]>>)),
          Request("POST /api/identity/create",
                  <<[k |-> "x-request-id", v |-> InboundId]>>, AddressB,
                  Obj(<<[k |-> "walletAddress",
                         v |-> Str("0x52908400098527886E0F7030069857D2E4169EE7")]>>)),
          Request("GET /nowhere", <<>>, AddressB, Undefined),
          Request("GET /fails", <<>>, AddressB, Undefined),
          Request("/vscore/leaderboard/top",
                  <<[k |-> "origin", v |-> Origin(<<"http://", "b.test">>)],
                    [k |-> "x-request-id", v |-> InboundId]>>,
                  AddressB, Undefined) }

\* values of process.env for the whole chain: the secret set and two
\* requests a window, in production mode
ChainEnvInputs ==
    LET base == Obj(<<[k |-> "JWT_SECRET", v |-> Str("k1")],
                      [k |-> "RATE_LIMIT_MAX_REQUESTS",
                       v |-> Text(Chars(<<"2">>))]>>)
    IN  {Assign(base, "NODE_ENV", Str("production"))}

InitChain ==
    /\ clock = Epoch
    /\ env \in ChainEnvInputs
    /\ tok = NoToken
    /\ verdict = NoVerdict
    /\ expiredFor = {}
    /\ reqs = [r \in Requests |-> IdleRequest]
    /\ store = {}
    /\ tally = {}

NextChain ==
    \/ \E r \in Requests, q \in ChainInputs :
          Accept(r, q.path, q.headers, q.remoteAddress, q.body)
    \/ \E r \in Requests : RequestIdMiddleware(r, MintedId(r))
    \/ \E r \in Requests : CorsOrigin(r)
    \/ \E r \in Requests : CorsErrorHandler(r)
    \/ \E r \in Requests : RateLimiter(r)
    \/ \E r \in Requests : AuthMiddleware(r)
    \/ \E r \in Requests : RequireRoles(r)
    \/ \E r \in Requests : ValidateBody(r)
    \/ \E r \in Requests : HealthHandler(r)
    \/ \E r \in Requests : GuardedHandler(r)
    \/ \E r \in Requests : IdentityCreateHandler(r)
    \/ \E r \in Requests : FailingHandler(r, TypeError("boom"), FALSE)
    \/ \E r \in Requests : NotFoundHandler(r)
    \/ \E r \in Requests : ErrorHandler(r)
    \/ \E r \in Requests : Close(r)

SpecChain == InitChain /\ [][NextChain]_vars

\* an error of a library or of the runtime: no code, no details, not
\* operational
PlainError(name, message, statusCode, status) ==
    [name |-> name, message |-> message, statusCode |-> statusCode,
     status |-> status, code |-> Undefined, details |-> Undefined,
     isOperational |-> FALSE, stack |-> Stack(name, message)]

\* the errors a handler fails with: ApiErrors, one of them with details; a
\* programming error; errors with the well-known names, with and without a
\* status of their own; an error that carries only err.status; the error
\* of the origin policy
ErrorInputs ==
    { ApiError(404, "NOT_FOUND", "Resource not found"),
      [ApiError(400, "BAD_REQUEST", "Invalid input")
          EXCEPT !.details = Obj(<<[k |-> "field", v |-> Str("did")]>>)],
      TypeError("boom"),
      PlainError("ValidationError", "invalid document", Undefined, Undefined),
      PlainError("ValidationError", "invalid document", Num(422), Undefined),
      PlainError("JsonWebTokenError", "jwt malformed", Undefined, Undefined),
      PlainError("TokenExpiredError", "jwt expired", Undefined, Num(403)),
      PlainError("Error", "upstream down", Undefined, Num(503)),
      CorsError }

\* how the handler fails: with each of the errors before it has answered,
\* and with a programming error and an error that reads like the one of
\* the origin policy after it has answered
FailureInputs ==
    {[err |-> e, responded |-> FALSE] : e \in ErrorInputs}
        \cup {[err |-> e, responded |-> TRUE] : e \in {TypeError("boom"), CorsError}}

\* the requests of the error chain: one to the handler that fails, and one
\* of a foreign origin that brings its identifier
FailingInputs ==
    { Request("GET /fails", <<>>, AddressB, Undefined),
      Request("GET /fails",
              <<[k |-> "origin", v |-> Origin(<<"http://", "b.test">>)],
                [k |-> "x-request-id", v |-> InboundId]>>,
              AddressB, Undefined) }

\* values of process.env for the error chain: the mode not set, development,
\* production
ModeEnvInputs ==
    { Obj(<<>>),
      Obj(<<[k |-> "NODE_ENV", v |-> Str("development")]>>),
      Obj(<<[k |-> "NODE_ENV", v |-> Str("production")]>>) }

InitErrors ==
    /\ clock = Epoch
    /\ env \in ModeEnvInputs
    /\ tok = NoToken
    /\ verdict = NoVerdict
    /\ expiredFor = {}
    /\ reqs = [r \in Requests |-> IdleRequest]
    /\ store = {}
    /\ tally = {}

NextErrors ==
    \/ \E r \in Requests, q \in FailingInputs :
          Accept(r, q.path, q.headers, q.remoteAddress, q.body)
    \/ \E r \in Requests : RequestIdMiddleware(r, MintedId(r))
    \/ \E r \in Requests : CorsOrigin(r)
    \/ \E r \in Requests : CorsErrorHandler(r)
    \/ \E r \in Requests : RateLimiter(r)
    \/ \E r \in Requests, f \in FailureInputs :
          FailingHandler(r, f.err, f.responded)
    \/ \E r \in Requests : ErrorHandler(r)
    \/ \E r \in Requests : FinalHandler(r)
    \/ \E r \in Requests : Close(r)

SpecErrors == InitErrors /\ [][NextErrors]_vars

\* the clients the key is derived for: behind a proxy; on its own address;
\* with neither header nor address; with an empty header; with a header
\* whose list begins with an empty value and no address
KeyClientInputs ==
    { ProxiedClient,
      [headers |-> Obj(<<>>), remoteAddress |-> AddressB],
      [headers |-> Obj(<<>>), remoteAddress |-> Undefined],
      [headers |-> Obj(<<[k |-> "x-forwarded-for", v |-> Text(<<>>)]>>),
       remoteAddress |-> AddressB],
      [headers |-> Obj(<<[k |-> "x-forwarded-for",
                          v |-> Text(Chars(<<",", " ", "10.0.0.9">>))]>>),
       remoteAddress |-> Undefined] }

InitKey ==
    /\ clock = Epoch
    /\ env = Obj(<<>>)
    /\ tok = NoToken
    /\ verdict = NoVerdict
    /\ expiredFor = {}
    /\ reqs = [r \in Requests |-> IdleRequest]
    /\ store = {}
    /\ tally = {}

\* requests of these clients to a route without auth middleware
NextKey ==
    \/ \E r \in Requests, c \in KeyClientInputs :
          Connect(r, "/vscore/leaderboard/top", c.headers, c.remoteAddress)
    \/ \E r \in Requests : CorsOrigin(r)
    \/ \E r \in Requests : RateLimiter(r)
    \/ \E r \in Requests : LeaderboardHandler(r)
    \/ \E r \in Requests : Close(r)

SpecKey == InitKey /\ [][NextKey]_vars

\* tokens for the auth middleware under the secret k1: with too few and too
\* many segments, and none at all; three segments nobody signed, and a
\* payload signed with another secret; signed payloads that are no JSON, the
\* JSON null or a JSON number; a signed payload that expired a minute ago, one
\* that expired at instant 0, one that
\* expires at this instant, and one that expires in an hour
TokenInputs ==
    { Text(<<>>),
      Text(<<Ch("x"), Dot, Ch("y")>>),
      Text(SignedToken(<<LBrace, RBrace>>, Str("k1")).c \o <<Dot, Ch("x")>>),
      Text(<<Ch("x"), Dot, Ch("y"), Dot, Ch("z")>>),
      SignedToken(<<LBrace, Member("sub", Str("u5")),
                    Member("exp", Num(EpochSec + 3600)), RBrace>>, Str("k2")),
      SignedToken(<<LBrace, Member("sub", Str("u5"))>>, Str("k1")),
      SignedToken(<<>>, Str("k1")),
      SignedToken(<<[lit |-> Null]>>, Str("k1")),
      SignedToken(<<[lit |-> Num(5)]>>, Str("k1")),
      SignedToken(<<LBrace, Member("sub", Str("u5")),
                    Member("exp", Num(EpochSec - 60)), RBrace>>, Str("k1")),
      SignedToken(<<LBrace, Member("sub", Str("u5")),
                    Member("exp", Num(0)), RBrace>>, Str("k1")),
      SignedToken(<<LBrace, Member("sub", Str("u5")),
                    Member("exp", Num(EpochSec)), RBrace>>, Str("k1")),
      SignedToken(<<LBrace, Member("sub", Str("u5")),
                    Member("exp", Num(EpochSec + 3600)), RBrace>>, Str("k1")) }

TokenHeaderInputs ==
    {Obj(<<[k |-> "authorization", v |-> Text(BearerPrefix \o t.c)]>>) :
        t \in TokenInputs}

\* the instant the token of an hour expires
TokenClock == {Epoch + 3600 * 1000}

InitToken ==
    /\ clock = Epoch
    /\ env = Obj(<<[k |-> "JWT_SECRET", v |-> Str("k1")]>>)
    /\ tok = NoToken
    /\ verdict = NoVerdict
    /\ expiredFor = {}
    /\ reqs = [r \in Requests |-> IdleRequest]
    /\ store = {}
    /\ tally = {}

\* requests to GET /vscore with these tokens, while the clock advances
NextToken ==
    \/ \E r \in Requests, h \in TokenHeaderInputs : Arrive(r, "GET /vscore", h)
    \/ \E r \in Requests : AuthMiddleware(r)
    \/ \E r \in Requests : VscoreHandler(r)
    \/ \E t \in TokenClock : Tick(t)

SpecToken == InitToken /\ [][NextToken]_vars

\* the requests whose way through the chain ends differently: a health
\* check; GET /vscore without a token; an identity the guard of GET /admin
\* refuses; a body validateBody refuses and one it lets through; a path no
\* route takes; a handler that fails; a request of a foreign origin. Two
\* requests a window pass the limiter
LiveInputs ==
    LET user == createToken(ClaimsUser, Str("k1"), Undefined).c
    IN  { Request("/health", <<>>, AddressB, Undefined),
          Request("GET /vscore", <<>>, AddressB, Undefined),
          Request("GET /admin",
                  <<[k |-> "authorization", v |-> Text(BearerPrefix \o user)]>>,
                  AddressB, Undefined),
          Request("POST /api/identity/create", <<>>, AddressB,
                  Obj(<<[k |-> "walletAddress", v |-> Str("0xabc")]>>)),
          Request("POST /api/identity/create", <<>>, AddressB,
                  Obj(<<[k |-> "walletAddress",
                         v |-> Str("0x52908400098527886E0F7030069857D2E4169EE7")]>>)),
          Request("GET /nowhere", <<>>, AddressB, Undefined),
          Request("GET /fails", <<>>, AddressB, Undefined),
          Request("GET /nowhere",
                  <<[k |-> "origin", v |-> Origin(<<"http://", "b.test">>)]>>,
                  AddressB, Undefined) }

\* how the handler of GET /fails fails: before it has answered, and after
LiveFailureInputs ==
    {[err |-> TypeError("boom"), responded |-> FALSE],
     [err |-> TypeError("boom"), responded |-> TRUE]}

\* the step of request r in the chain at every stage but the limiter and
\* authentication: the middleware, handler or error handler the stage names
Step(r) ==
    \/ RequestIdMiddleware(r, MintedId(r))
    \/ CorsOrigin(r)
    \/ CorsErrorHandler(r)
    \/ RequireRoles(r)
    \/ ValidateBody(r)
    \/ HealthHandler(r)
    \/ IdentityCreateHandler(r)
    \/ \E f \in LiveFailureInputs : FailingHandler(r, f.err, f.responded)
    \/ NotFoundHandler(r)
    \/ ErrorHandler(r)
    \/ FinalHandler(r)

\* request r waits for the limiter: the condition under which
\* RateLimiter(r) can be taken, which always moves r on
AtLimiter(r) == reqs[r].pc = "rateLimit"

\* request r waits for authMiddleware: the condition under which
\* AuthMiddleware(r) can be taken, which always moves r on
AtAuth(r) == reqs[r].pc = "auth" /\ reqs[r].route \in AuthRoutes

NextLive ==
    \/ \E r \in Requests, q \in LiveInputs :
          Accept(r, q.path, q.headers, q.remoteAddress, q.body)
    \/ \E r \in Requests : Step(r)
    \/ \E r \in Requests : RateLimiter(r)
    \/ \E r \in Requests : AuthMiddleware(r)
    \/ \E r \in Requests : Close(r)

\* Node runs the callbacks of its queue, each to its end: a middleware that
\* calls next() runs the next one in the same turn, and the promise of an
\* asynchronous handler settles in a later turn that is taken. No request
\* waits for ever on a step that can be taken; that requests come in, and
\* that connections are used again, is up to the clients. The weak fairness
\* of RateLimiter(r) and of AuthMiddleware(r) is written out, each with its
\* enabling condition
SpecLive ==
    /\ InitChain
    /\ [][NextLive]_vars
    /\ \A r \in Requests :
          /\ WF_vars(Step(r))
          /\ []<>(~AtLimiter(r)) \/ []<><<RateLimiter(r)>>_vars
          /\ []<>(~AtAuth(r)) \/ []<><<AuthMiddleware(r)>>_vars

\* requests that end at different places of the chain, of two clients: one
\* of a foreign origin and one without a token, both of the client behind
\* the proxy; one the guard of GET /admin refuses and one it lets through,
\* both of the client on its own address
OrderInputs ==
    LET admin == createToken(ClaimsAdmin, Str("k1"), Text(Chars(<<"1", "h">>))).c
        user == createToken(ClaimsUser, Str("k1"), Undefined).c
        forwarded == ProxiedClient.headers.m
    IN  { Request("GET /vscore",
                  forwarded \o <<[k |-> "origin",
                                  v |-> Origin(<<"http://", "b.test">>)]>>,
                  AddressB, Undefined),
          Request("GET /vscore", forwarded, AddressB, Undefined),
          Request("GET /admin",
                  <<[k |-> "authorization", v |-> Text(BearerPrefix \o user)]>>,
                  AddressB, Undefined),
          Request("GET /admin",
                  <<[k |-> "authorization", v |-> Text(BearerPrefix \o admin)]>>,
                  AddressB, Undefined) }

\* the chain in front of GET /vscore and GET /admin
NextOrder ==
    \/ \E r \in Requests, q \in OrderInputs :
          Accept(r, q.path, q.headers, q.remoteAddress, q.body)
    \/ \E r \in Requests : RequestIdMiddleware(r, MintedId(r))
    \/ \E r \in Requests : CorsOrigin(r)
    \/ \E r \in Requests : CorsErrorHandler(r)
    \/ \E r \in Requests : RateLimiter(r)
    \/ \E r \in Requests : AuthMiddleware(r)
    \/ \E r \in Requests : RequireRoles(r)
    \/ \E r \in Requests : GuardedHandler(r)
    \/ \E r \in Requests : Close(r)

SpecOrder == InitChain /\ [][NextOrder]_vars

----------------------------------------------------------------------------
(* Claims about the token codec *)

Parts(token) == Split(token.c)

\* the third segment of token is the digest of the first two under secret
SignatureMatches(token, secret) ==
    /\ Len(Parts(token)) = 3
    /\ Parts(token)[3] =
         HmacSha256(secret, Parts(token)[1] \o <<Dot>> \o Parts(token)[2])

\* what the payload segment of a three-segment token says
PayloadOf(token) == JSONParse(base64urlDecode(Parts(token)[2]))

NowSec == clock \div 1000

Verified == verdict.kind = "run"

Accepted == Verified /\ verdict.run.ret # Null

\* C1: a token that verified and then had one character of one segment
\* changed is rejected under every secret, and whatever verifyToken accepts
\* carries the HMAC of its first two segments under the verifying secret.
C1_TamperedTokenRejected ==
    /\ (tok.kind = "tampered" /\ Verified) => verdict.run.ret = Null
    /\ Accepted => SignatureMatches(tok.token, verdict.secret)

\* a token whose payload segment alone was changed is verified under the
\* secret that signed it, and rejected
C1_Witness ==
    /\ tok.kind = "tampered"
    /\ Verified
    /\ verdict.secret = tok.secret
    /\ verdict.run.ret = Null
    /\ Len(Parts(tok.token)) = 3
    /\ Parts(tok.token)[1] = Parts(tok.base)[1]
    /\ Parts(tok.token)[2] # Parts(tok.base)[2]
    /\ Parts(tok.token)[3] = Parts(tok.base)[3]

\* the lifetimes the three documented ttl strings stand for, in seconds
DocumentedTtls ==
    { [ttl |-> Text(Chars(<<"1", "h">>)), sec |-> 3600],
      [ttl |-> Text(Chars(<<"2", "4", "h">>)), sec |-> 86400],
      [ttl |-> Text(Chars(<<"7", "d">>)), sec |-> 604800] }

Keys(o) == {o.m[i].k : i \in 1..Len(o.m)}

\* p is claims with iat and exp set to the given seconds, and nothing else
Augmented(p, claims, iat, exp) ==
    /\ p.t = "obj"
    /\ Keys(p) = Keys(claims) \cup {"iat", "exp"}
    /\ \A k \in Keys(claims) \ {"iat", "exp"} : Get(p, k) = Get(claims, k)
    /\ Get(p, "iat") = Num(iat)
    /\ Get(p, "exp") = Num(exp)

\* C2: verifying an issued token under the issuing secret before it expires
\* returns the caller's claims with iat = the second of issuance and
\* exp = iat + ttl, for ttl 1h, 24h and 7d.
C2_RoundTrip ==
    \A d \in DocumentedTtls :
        ( /\ tok.kind = "issued"
          /\ ValidClaims(tok.payload)
          /\ tok.expiresIn = d.ttl
          /\ Verified
          /\ verdict.secret = tok.secret
          /\ NowSec < tok.at \div 1000 + d.sec )
        => Augmented(verdict.run.ret, tok.payload,
                     tok.at \div 1000, tok.at \div 1000 + d.sec)

\* a 7d token verified a day after it was issued
C2_Witness ==
    /\ tok.kind = "issued"
    /\ tok.payload = ClaimsAdmin
    /\ tok.expiresIn = Text(Chars(<<"7", "d">>))
    /\ Verified
    /\ verdict.secret = tok.secret
    /\ clock >= tok.at + DayMs
    /\ Accepted
    /\ Get(verdict.run.ret, "exp") = Num(tok.at \div 1000 + 604800)

\* C3: an issued token is rejected under its own secret at every instant at
\* or after its expiresAt, and a token once rejected as expired under a
\* secret is not accepted under that secret afterwards.
C3_ExpiredStaysRejected ==
    /\ ( /\ tok.kind = "issued"
         /\ Verified
         /\ verdict.secret = tok.secret
         /\ Get(PayloadOf(tok.token), "exp").t = "num"
         /\ NowSec >= Get(PayloadOf(tok.token), "exp").n )
       => verdict.run.ret = Null
    /\ Accepted => verdict.secret \notin expiredFor

\* a token issued with ttl "0h" is verified at the instant of issuance and
\* rejected as expired
C3_Witness ==
    /\ tok.kind = "issued"
    /\ tok.expiresIn = Text(Chars(<<"0", "h">>))
    /\ clock = tok.at
    /\ Verified
    /\ verdict.secret = tok.secret
    /\ verdict.run.ret = Null
    /\ tok.secret \in expiredFor

\* C4: whatever verifyToken accepts has a numeric expiresAt later than the
\* current second.
C4_AcceptedHasFutureExpiry ==
    Accepted =>
        /\ Get(verdict.run.ret, "exp").t = "num"
        /\ Get(verdict.run.ret, "exp").n > NowSec

\* the lifetime section 4.1 gives a ttl: a run of digits and a unit h or d,
\* and 24 hours for anything else
IsDigits(s) == Len(s) > 0 /\ \A i \in 1..Len(s) : IsDigit(s[i])

DocumentedLifetime(expiresIn) ==
    IF expiresIn.t = "undef" THEN 86400
    ELSE LET s == expiresIn.c
             prefix == SubSeq(s, 1, Len(s) - 1)
         IN  IF EndsWith(s, Ch("h")) /\ IsDigits(prefix)
             THEN DigitRun(prefix, 1, 0) * 3600
             ELSE IF EndsWith(s, Ch("d")) /\ IsDigits(prefix)
             THEN DigitRun(prefix, 1, 0) * 86400
             ELSE 86400

\* C5: every issued token carries exp = iat + the parsed lifetime, or
\* iat + 24 hours when the ttl is omitted or cannot be parsed.
C5_ExpiryIsIatPlusLifetime ==
    tok.kind = "issued" =>
        Get(PayloadOf(tok.token), "exp") =
            Num(tok.at \div 1000 + DocumentedLifetime(tok.expiresIn))

\* C6: verifyToken returns a value and never the exception; a token that is
\* not three segments and a token whose payload does not parse give null;
\* the payload is decoded only when the signature matched.
C6_VerifyIsTotal ==
    Verified =>
        /\ verdict.run.ret # Throw
        /\ Len(Parts(tok.token)) # 3 => verdict.run.ret = Null
        /\ (Len(Parts(tok.token)) = 3 /\ PayloadOf(tok.token) = Throw)
              => verdict.run.ret = Null
        /\ verdict.run.decoded => SignatureMatches(tok.token, verdict.secret)

\* a correctly signed token whose payload is not JSON is verified: the parse
\* raises, and null comes back
C6_Witness ==
    /\ Verified
    /\ SignatureMatches(tok.token, verdict.secret)
    /\ PayloadOf(tok.token) = Throw
    /\ verdict.run.decoded
    /\ verdict.run.raised
    /\ verdict.run.ret = Null

----------------------------------------------------------------------------
(* Claims about the auth middleware *)

AuthHeaderOf(r) == Get(reqs[r].headers, "authorization")

Secret == Get(env, "JWT_SECRET")

\* the auth middleware has run on r
PastAuth(r) == reqs[r].pc \notin {"idle", "auth"}

\* r carries a Bearer-prefixed header
HasBearer(r) ==
    AuthHeaderOf(r).t = "text" /\ StartsWith(AuthHeaderOf(r).c, BearerPrefix)

\* what verifyToken returned for r's own token when the middleware ran
OwnPayload(r) ==
    VerifyRunAt(Text(Slice(AuthHeaderOf(r).c, 7)), Secret, reqs[r].at).ret

\* r was answered by the auth middleware with this status and code, did not
\* continue and got no identity
RejectedWith(r, status, code) ==
    /\ reqs[r].pc = "done"
    /\ Len(reqs[r].responses) = 1
    /\ reqs[r].responses[1].status = status
    /\ reqs[r].responses[1].body.success = FALSE
    /\ reqs[r].responses[1].body.error.code = code
    /\ reqs[r].nexts = 0
    /\ reqs[r].user = Undefined

\* u is the identity {id, did, wallets, roles} of payload p
IdentityFrom(u, p) ==
    /\ u.t = "obj"
    /\ Keys(u) = {"id", "did", "wallets", "roles"}
    /\ Get(u, "id") = Get(p, "sub")
    /\ Get(u, "did") = Get(p, "did")
    /\ Get(u, "wallets") =
         (IF "wallets" \in Keys(p) THEN Get(p, "wallets") ELSE Arr(<<>>))
    /\ Get(u, "roles") =
         (IF "roles" \in Keys(p) THEN Get(p, "roles") ELSE Arr(<<>>))

\* r continued past the auth middleware, once, with the identity of its token
ContinuedAs(r, p) ==
    /\ reqs[r].nexts = 1
    /\ IdentityFrom(reqs[r].user, p)
    /\ \A i \in 1..Len(reqs[r].responses) :
          reqs[r].responses[i].body.success
          \/ reqs[r].responses[i].body.error.code
               \notin {"MISSING_AUTH_HEADER", "INVALID_AUTH_FORMAT",
                        "SERVER_CONFIG_ERROR", "INVALID_TOKEN"}

\* the outcome authMiddleware owes r when the first check is noHeader
Decision(r, noHeader) ==
    IF noHeader THEN RejectedWith(r, 401, "MISSING_AUTH_HEADER")
    ELSE IF ~HasBearer(r) THEN RejectedWith(r, 401, "INVALID_AUTH_FORMAT")
    ELSE IF Falsy(Secret) THEN RejectedWith(r, 500, "SERVER_CONFIG_ERROR")
    ELSE IF OwnPayload(r) = Null THEN RejectedWith(r, 401, "INVALID_TOKEN")
    ELSE ContinuedAs(r, OwnPayload(r))

OnProtected(r) == reqs[r].route \in ProtectedRoutes

OnOptional(r) == reqs[r].route \in OptionalRoutes

\* C7 as stated: the first check is that the request has no Authorization
\* header; then the Bearer prefix, the secret, the verification, in this order.
C7_DecisionOrderAsStated ==
    \A r \in Requests :
        (OnProtected(r) /\ PastAuth(r)) =>
            Decision(r, AuthHeaderOf(r) = Undefined)

\* C7 amended: the first check also takes an empty Authorization header for
\* a missing one; the rest of the order is as stated.
C7_DecisionOrder ==
    \A r \in Requests :
        (OnProtected(r) /\ PastAuth(r)) =>
            Decision(r, AuthHeaderOf(r) = Undefined \/ AuthHeaderOf(r) = Text(<<>>))

\* one request went on with the identity of its token while another was
\* answered INVALID_TOKEN
C7_Witness ==
    \E r, q \in Requests :
        /\ OnProtected(r) /\ HasBearer(r) /\ PastAuth(r)
        /\ reqs[r].nexts = 1
        /\ Get(reqs[r].user, "id") = Str("u1")
        /\ OnProtected(q) /\ HasBearer(q)
        /\ RejectedWith(q, 401, "INVALID_TOKEN")

\* r's header verified: Bearer-prefixed, a secret is set, verifyToken
\* returned a payload
OwnTokenVerified(r) ==
    HasBearer(r) /\ ~Falsy(Secret) /\ OwnPayload(r) # Null

\* the optional middleware let r through once, wrote nothing, and left a
\* null identity unless r's token verified
OptionalPassed(r) ==
    /\ reqs[r].nexts = 1
    /\ reqs[r].pc = "handler" => reqs[r].responses = <<>>
    /\ Len(reqs[r].responses) <= 1
    /\ \A i \in 1..Len(reqs[r].responses) :
          reqs[r].responses[i].status \notin {401, 403, 500}
    /\ IF OwnTokenVerified(r)
       THEN IdentityFrom(reqs[r].user, OwnPayload(r))
       ELSE reqs[r].user = Null

EndedIn200(r) ==
    /\ Len(reqs[r].responses) = 1
    /\ reqs[r].responses[1].status = 200
    /\ reqs[r].responses[1].body.success

\* C8 as stated: the optional middleware never rejects, and a request
\* without Authorization header to an optional-auth route ends in 200 with a
\* null identity.
C8_OptionalNeverRejectsAsStated ==
    \A r \in Requests :
        (OnOptional(r) /\ PastAuth(r)) =>
            /\ OptionalPassed(r)
            /\ (AuthHeaderOf(r) = Undefined /\ reqs[r].pc = "done")
                  => (EndedIn200(r) /\ reqs[r].user = Null)

\* C8 amended: the same, the 200 being owed only when the route's handler
\* has accepted the identifier (it answers 400 to a malformed one).
C8_OptionalNeverRejects ==
    \A r \in Requests :
        (OnOptional(r) /\ PastAuth(r)) =>
            /\ OptionalPassed(r)
            /\ (AuthHeaderOf(r) = Undefined /\ reqs[r].pc = "done"
                 /\ reqs[r].err = Undefined)
                  => (EndedIn200(r) /\ reqs[r].user = Null)

\* a request without header and one whose token does not verify both went
\* through the optional middleware with a null identity; the first has been
\* served
C8_Witness ==
    \E r, q \in Requests :
        /\ OnOptional(r) /\ AuthHeaderOf(r) = Undefined
        /\ reqs[r].pc = "done" /\ EndedIn200(r) /\ reqs[r].user = Null
        /\ OnOptional(q) /\ HasBearer(q) /\ ~Falsy(Secret)
        /\ PastAuth(q) /\ OwnPayload(q) = Null
        /\ reqs[q].user = Null /\ reqs[q].nexts = 1

\* C9: a request has an identity only if its own Bearer token verified under
\* the configured secret, and the identity is that of its own token's
\* payload, whatever the other requests carry.
C9_IdentityIsOwn ==
    \A r \in Requests :
        reqs[r].user \notin {Undefined, Null} =>
            /\ OwnTokenVerified(r)
            /\ IdentityFrom(reqs[r].user, OwnPayload(r))

\* two requests in flight with the identities of two different tokens
C9_Witness ==
    \E r, q \in Requests :
        /\ Get(reqs[r].user, "id") = Str("u1")
        /\ Get(reqs[q].user, "id") = Str("u2")
        /\ reqs[r].pc = "handler"
        /\ reqs[q].pc = "handler"

\* C10: while no secret is configured no request gets past authMiddleware
\* or gets an identity from it, and a Bearer-prefixed request is answered
\* 500 SERVER_CONFIG_ERROR.
C10_NoSecretNoBypass ==
    Falsy(Secret) =>
        \A r \in Requests :
            OnProtected(r) =>
                /\ reqs[r].nexts = 0
                /\ reqs[r].user = Undefined
                /\ reqs[r].pc \in {"auth", "done"}
                /\ (PastAuth(r) /\ HasBearer(r))
                      => RejectedWith(r, 500, "SERVER_CONFIG_ERROR")

\* with an empty JWT_SECRET, a request carrying an otherwise good token is
\* answered 500
C10_Witness ==
    /\ Secret = Str("")
    /\ \E r \in Requests :
          /\ OnProtected(r)
          /\ HasBearer(r)
          /\ SignatureMatches(Text(Slice(AuthHeaderOf(r).c, 7)), Str("k1"))
          /\ RejectedWith(r, 500, "SERVER_CONFIG_ERROR")

----------------------------------------------------------------------------
(* Claims about the authorization guard *)

\* requireRoles has run on r
GuardRan(r) ==
    /\ reqs[r].route \in GuardedRoutes
    /\ reqs[r].pc \in {"handler", "done"}
    /\ reqs[r].route = "GET /admin" => reqs[r].nexts >= 1

\* the middlewares mounted before requireRoles on r's route
BeforeGuard(r) == IF reqs[r].route = "GET /bare" THEN 0 ELSE 1

\* the guard let r continue, once, and wrote nothing
GuardPassed(r) ==
    /\ reqs[r].nexts = BeforeGuard(r) + 1
    /\ reqs[r].pc = "handler" => reqs[r].responses = <<>>
    /\ \A i \in 1..Len(reqs[r].responses) : reqs[r].responses[i].status = 200

\* the guard answered r with this status and code and did not let it continue
GuardRejected(r, status, code) ==
    /\ reqs[r].pc = "done"
    /\ reqs[r].nexts = BeforeGuard(r)
    /\ Len(reqs[r].responses) = 1
    /\ reqs[r].responses[1].status = status
    /\ reqs[r].responses[1].body.success = FALSE
    /\ reqs[r].responses[1].body.error.code = code

\* the role strings of r's identity
RoleSet(r) ==
    LET roles == Get(reqs[r].user, "roles")
    IN  IF roles.t = "arr" THEN {roles.a[j] : j \in 1..Len(roles.a)} ELSE {}

\* the allow-list of r's route, as a set
AllowSet(r) ==
    {allowedRoles(reqs[r].route)[i] : i \in 1..Len(allowedRoles(reqs[r].route))}

\* C11: the guard answers 401 UNAUTHORIZED to a request without identity;
\* otherwise it lets the request continue iff a role of the identity is equal,
\* case included, to a member of the allow-list, and answers 403 FORBIDDEN if
\* none is.
C11_GuardDecides ==
    \A r \in Requests :
        GuardRan(r) =>
            IF reqs[r].user \in {Undefined, Null}
            THEN GuardRejected(r, 401, "UNAUTHORIZED")
            ELSE IF RoleSet(r) \cap AllowSet(r) # {}
            THEN GuardPassed(r)
            ELSE GuardRejected(r, 403, "FORBIDDEN")

\* roles {"admin"} passed the allow-list {"admin", "ops"}, roles {"user"} and
\* roles {"Admin"} got 403 from it
C11_Witness ==
    \E r, q \in Requests :
        /\ reqs[r].route = "GET /admin"
        /\ RoleSet(r) = {Str("admin")}
        /\ GuardRan(r) /\ GuardPassed(r)
        /\ reqs[q].route = "GET /admin"
        /\ RoleSet(q) \in {{Str("user")}, {Str("Admin")}}
        /\ GuardRejected(q, 403, "FORBIDDEN")

\* C12: a request answered 403 FORBIDDEN went through an auth middleware
\* that verified the request's own token before the guard ran.
C12_ForbiddenAfterVerify ==
    \A r \in Requests :
        \A i \in 1..Len(reqs[r].responses) :
            (/\ reqs[r].responses[i].status = 403
             /\ reqs[r].responses[i].body.error.code = "FORBIDDEN")
            => /\ reqs[r].route \in AuthRoutes \cup OptionalAuthRoutes
               /\ reqs[r].nexts = 1
               /\ OwnTokenVerified(r)
               /\ IdentityFrom(reqs[r].user, OwnPayload(r))

\* a verified token without an allowed role got 403 behind each of the two
\* auth middlewares
C12_Witness ==
    \E r, q \in Requests :
        /\ reqs[r].route = "GET /admin"
        /\ GuardRejected(r, 403, "FORBIDDEN")
        /\ reqs[q].route = "GET /staff"
        /\ GuardRejected(q, 403, "FORBIDDEN")

----------------------------------------------------------------------------
(* Claims about the origin policy *)

OriginOf(r) == Get(reqs[r].headers, "origin")

\* the origin policy has decided on r
PastCors(r) == reqs[r].pc \notin {"idle", "cors"}

\* the origin policy let r continue
OriginAllowed(r) == reqs[r].nexts >= 1 /\ reqs[r].err = Undefined

\* the origin policy refused r: the request went to the error middlewares
\* and to nothing else
OriginRejected(r) ==
    /\ reqs[r].nexts = 0
    /\ reqs[r].err # Undefined
    /\ reqs[r].err.message = "Not allowed by CORS"
    /\ reqs[r].pc \in {"corsError", "done"}

\* the configured whitelist
Whitelist == {allowedOrigins[i] : i \in 1..Len(allowedOrigins)}

\* C13 as stated: a request with no Origin header is allowed, and a request
\* with one is allowed iff the header is equal to an entry of the whitelist.
C13_ExactOriginMatchAsStated ==
    \A r \in Requests :
        PastCors(r) =>
            /\ OriginAllowed(r) \/ OriginRejected(r)
            /\ OriginAllowed(r) <=>
                  (OriginOf(r) = Undefined \/ OriginOf(r) \in Whitelist)

\* C13: a request with no Origin header, or with an empty one, is allowed; a
\* request with any other Origin is allowed iff the header is equal,
\* character for character, to an entry of the whitelist.
C13_ExactOriginMatch ==
    \A r \in Requests :
        PastCors(r) =>
            /\ OriginAllowed(r) \/ OriginRejected(r)
            /\ OriginAllowed(r) <=>
                  (\/ OriginOf(r) = Undefined
                   \/ OriginOf(r) = Text(<<>>)
                   \/ OriginOf(r) \in Whitelist)

\* with the whitelist {http://a.test}, http://a.test was allowed and a
\* neighbour of it (trailing slash, subdomain, other host) was rejected
C13_Witness ==
    /\ Whitelist = {Origin(<<"http://", "a.test">>)}
    /\ \E r, q \in Requests :
          /\ OriginOf(r) = Origin(<<"http://", "a.test">>)
          /\ PastCors(r) /\ OriginAllowed(r)
          /\ OriginOf(q) \in {Origin(<<"http://", "b.test">>),
                              Origin(<<"http://", "a.test", "/">>),
                              Origin(<<"http://", "sub.", "a.test">>)}
          /\ PastCors(q) /\ OriginRejected(q)

\* C14: no request with an Origin is allowed unless the Origin is equal to a
\* whitelist entry that is a well-formed http or https URL.
C14_MalformedEntryNeverMatches ==
    \A r \in Requests :
        (/\ PastCors(r)
         /\ OriginAllowed(r)
         /\ OriginOf(r) \notin {Undefined, Text(<<>>)})
        => \E e \in Whitelist : isValidOriginFormat(e) /\ e = OriginOf(r)

\* the body of the response names the rejected origin
NamesOrigin(body, origin) ==
    /\ "details" \in DOMAIN body.error
    /\ body.error.details = [origin |-> origin]

\* C15: a request the origin policy rejects reaches neither the limiter nor a
\* route handler and is answered, once, with 403 CORS_ERROR; the answer
\* names the rejected origin in development mode and has no details outside
\* it.
C15_CorsRejection ==
    \A r \in Requests :
        (reqs[r].err # Undefined /\ reqs[r].err.message = "Not allowed by CORS")
        => /\ OriginRejected(r)
           /\ reqs[r].pc = "corsError" => reqs[r].responses = <<>>
           /\ reqs[r].pc = "done" =>
                 /\ Len(reqs[r].responses) = 1
                 /\ reqs[r].responses[1].status = 403
                 /\ reqs[r].responses[1].body.success = FALSE
                 /\ reqs[r].responses[1].body.error.code = "CORS_ERROR"
                 /\ IF Get(env, "NODE_ENV") = Str("development")
                    THEN NamesOrigin(reqs[r].responses[1].body, OriginOf(r))
                    ELSE "details" \notin DOMAIN reqs[r].responses[1].body.error

\* outside development mode a rejected request got its 403 without details
C15_Witness ==
    /\ Get(env, "NODE_ENV") # Str("development")
    /\ \E r \in Requests :
          /\ OriginRejected(r)
          /\ reqs[r].pc = "done"
          /\ reqs[r].responses[1].status = 403

----------------------------------------------------------------------------
(* Claims about the rate limiter *)

\* the limiter answered r: one response, 429 RATE_LIMIT_EXCEEDED, after cors
\* and before any route handler
TooManyRequests(r) ==
    /\ reqs[r].pc = "done"
    /\ reqs[r].nexts = 1
    /\ Len(reqs[r].responses) = 1
    /\ reqs[r].responses[1].status = 429
    /\ reqs[r].responses[1].body.success = FALSE
    /\ reqs[r].responses[1].body.error.code = "RATE_LIMIT_EXCEEDED"

\* some response of r has status 429
Has429(r) ==
    \E i \in 1..Len(reqs[r].responses) : reqs[r].responses[i].status = 429

\* the limiter takes its step on r
LimiterStep(r) == reqs[r].pc = "rateLimit" /\ reqs'[r].pc # "rateLimit"

OnHealthPath(r) == reqs[r].route \in {"/health", "/api/health"}

\* C16: in one window of one key the limiter admits at most max requests and
\* refuses a request only when it has admitted max of that same key in that
\* window; a refused request is answered 429 RATE_LIMIT_EXCEEDED and reaches
\* no route handler.
C16_AtMostMaxPerWindow ==
    /\ \A t \in tally :
          /\ t.admitted <= max
          /\ t.refused > 0 => t.admitted = max
    /\ \A r \in Requests : Has429(r) => TooManyRequests(r)

\* a key had its two requests admitted and the third one refused, while
\* another key had a request admitted
C16_Witness ==
    \E a, b \in tally :
        /\ a.key # b.key
        /\ max >= 2
        /\ a.admitted = max
        /\ a.refused >= 1
        /\ b.admitted >= 1
        /\ \E r \in Requests : TooManyRequests(r)

\* C17: a request of a key whose window has elapsed is admitted and opens a
\* new window with a count of one, whatever the limiter refused before.
C17_ResetAfterWindow ==
    [][\A r \in Requests :
          (/\ LimiterStep(r)
           /\ ~OnHealthPath(r)
           /\ \E x \in store : /\ x.key = keyGenerator(reqs[r])
                               /\ clock - x.windowStart >= windowMs)
          => /\ reqs'[r].pc = "handler"
             /\ reqs'[r].responses = <<>>
             /\ \E y \in store' : /\ y.key = keyGenerator(reqs[r])
                                  /\ y.count = 1
                                  /\ y.windowStart = clock]_vars

\* a key that was refused in one window has a request admitted in the next
C17_Witness ==
    \E t \in tally :
        /\ t.refusedBefore
        /\ t.admitted >= 1
        /\ clock - t.start < windowMs

C19_RetryAfterIsRemaining ==
    \A r \in Requests :
        TooManyRequests(r) =>
            \A x \in store :
                (/\ x.key = keyGenerator(reqs[r])
                 /\ x.windowStart <= reqs[r].at
                 /\ reqs[r].at < x.windowStart + windowMs)
                => reqs[r].responses[1].body.error.retryAfter
                      = JsCeilDiv(x.windowStart + windowMs - reqs[r].at, 1000)

\* C20: the limiter lets a request to /health or /api/health continue,
\* writes no response to it and leaves every record of the store as it is.
C20_HealthExempt ==
    [][\A r \in Requests :
          (LimiterStep(r) /\ OnHealthPath(r))
          => /\ reqs'[r].pc = "handler"
             /\ reqs'[r].responses = <<>>
             /\ store' = store]_vars

\* a health check went through while its key was over the limit
C20_Witness ==
    \E r \in Requests :
        /\ reqs[r].route = "/api/health"
        /\ reqs[r].pc = "handler"
        /\ \E x \in store :
              /\ x.key = keyGenerator(reqs[r])
              /\ x.count > max
              /\ clock - x.windowStart < windowMs


----------------------------------------------------------------------------
(* Claims about the client key *)

ForwardedFor(req) == Get(req.headers, "x-forwarded-for")

\* the first value of the forwarded-for list of a request that has the header
FirstForwarded(req) == Text(Trim(SplitComma(ForwardedFor(req).c)[1]))

\* how many requests the store counts for a key
Counted(records, key) ==
    IF \E x \in records : x.key = key
    THEN (CHOOSE x \in records : x.key = key).count
    ELSE 0

\* the limiter counts request r in the bucket of key, and in no other
CountedUnder(r, key) ==
    /\ Counted(store', key) = Counted(store, key) + 1
    /\ \A x \in store : x.key # key => x \in store'
    /\ \A x \in store' : x.key # key => x \in store

\* the key the claim gives a request when it takes a present header for a
\* present value
StatedKey(req) ==
    IF ForwardedFor(req) # Undefined THEN FirstForwarded(req)
    ELSE IF req.remoteAddress # Undefined THEN req.remoteAddress
    ELSE UnknownKey

\* the key of a request whose forwarded-for header may be there without a
\* first value
DerivedKey(req) ==
    IF ForwardedFor(req) # Undefined /\ FirstForwarded(req).c # <<>>
    THEN FirstForwarded(req)
    ELSE IF req.remoteAddress # Undefined THEN req.remoteAddress
    ELSE UnknownKey

\* C21 as stated: the limiter counts a request under the first value of its
\* forwarded-for list if the header is present, else under its remote
\* address, else under "unknown"
C21_ClientKeyAsStated ==
    [][\A r \in Requests :
          (reqs[r].pc = "rateLimit" /\ reqs'[r].pc # "rateLimit")
             => CountedUnder(r, StatedKey(reqs[r]))]_vars

\* C21: the limiter counts a request under the first value of its
\* forwarded-for list if the header is present and that value is not empty,
\* else under its remote address, else under "unknown"; so the requests with
\* neither are all counted in the one bucket "unknown"
C21_ClientKey ==
    [][\A r \in Requests :
          (reqs[r].pc = "rateLimit" /\ reqs'[r].pc # "rateLimit")
             => CountedUnder(r, DerivedKey(reqs[r]))]_vars

\* two requests without forwarded-for value and without address, one with
\* no header and one with a list that begins empty, are past the limiter and
\* the bucket "unknown" counts both, next to the buckets of a proxied client
\* and of an address
C21_Witness ==
    /\ \E r, q \in Requests :
          /\ r # q
          /\ reqs[r].pc = "handler" /\ reqs[q].pc = "handler"
          /\ reqs[r].remoteAddress = Undefined /\ ForwardedFor(reqs[r]) = Undefined
          /\ reqs[q].remoteAddress = Undefined /\ ForwardedFor(reqs[q]) # Undefined
    /\ Counted(store, UnknownKey) >= 2
    /\ Counted(store, AddressB) >= 1
    /\ Counted(store, Text(Chars(<<"10.0.0.1">>))) >= 1


----------------------------------------------------------------------------
(* Claims about the headers and the number of the responses *)

RateLimitHeaderNames == {"RateLimit-Limit", "RateLimit-Remaining", "RateLimit-Reset"}

\* the names of the headers a response went out with
HeaderNames(response) == {h.k : h \in response.headers}

\* the origin policy lets the request through and its path is no health
\* check: the limiter counts it
LimiterCounts(req) ==
    /\ Get(req.headers, "origin") = Undefined
          \/ Get(req.headers, "origin") = Text(<<>>)
          \/ Includes(allowedOrigins, Get(req.headers, "origin"))
    /\ req.route \notin {"/health", "/api/health"}

\* C22 as stated: every response the pipeline produces carries the three
\* standard rate-limit headers
C22_RateLimitHeadersAsStated ==
    \A r \in Requests : \A i \in 1..Len(reqs[r].responses) :
        RateLimitHeaderNames \subseteq HeaderNames(reqs[r].responses[i])

\* C22: every response to a request the limiter counted carries the three
\* standard rate-limit headers, whether the limiter refused the request or
\* let it through; the responses to the requests it did not count (refused by
\* the origin policy before it, or health checks) carry none of them
C22_RateLimitHeaders ==
    \A r \in Requests : \A i \in 1..Len(reqs[r].responses) :
        IF LimiterCounts(reqs[r])
        THEN RateLimitHeaderNames \subseteq HeaderNames(reqs[r].responses[i])
        ELSE RateLimitHeaderNames \cap HeaderNames(reqs[r].responses[i]) = {}

\* one request was refused with 429 and another was answered by its route,
\* both with the headers
C22_Witness ==
    \E r, q \in Requests :
        /\ Len(reqs[r].responses) = 1 /\ Len(reqs[q].responses) = 1
        /\ reqs[r].responses[1].status = 429
        /\ reqs[q].responses[1].status \in {200, 201}
        /\ LimiterCounts(reqs[q])
        /\ RateLimitHeaderNames \subseteq HeaderNames(reqs[r].responses[1])
        /\ RateLimitHeaderNames \subseteq HeaderNames(reqs[q].responses[1])


\* the steps of a request that are middleware which may answer: the origin
\* policy with its error handler, the limiter, auth, guard, body validation
\* and the error handler
AnsweringStages ==
    {"cors", "corsError", "rateLimit", "auth", "roles", "validate", "error"}

\* the step from a to b wrote one response, the first of the request, and
\* ended the chain without passing the request on
WroteOne(a, b) ==
    /\ Len(a.responses) = 0
    /\ Len(b.responses) = 1
    /\ b.pc = "done"
    /\ b.nexts = a.nexts
    /\ b.err = a.err

\* the step from a to b wrote nothing and passed the request on, to the next
\* middleware or, with an error, to the error middleware
PassedOn(a, b) ==
    /\ b.responses = a.responses
    /\ b.pc \notin {"done", "idle", a.pc}
    /\ \/ b.nexts = a.nexts + 1 /\ b.err = a.err
       \/ b.nexts = a.nexts /\ b.err # Undefined

\* C23: every step of a middleware (origin policy, limiter, auth, guard, body
\* validation, error handler) on a request either writes one response and
\* ends the chain, or writes nothing and passes the request on, never both;
\* and no request ever has a second response
C23_OneResponse ==
    [][\A r \in Requests :
          /\ Len(reqs'[r].responses) <= 1
          /\ (reqs[r].pc \in AnsweringStages /\ reqs'[r] # reqs[r])
                => (WroteOne(reqs[r], reqs'[r]) \/ PassedOn(reqs[r], reqs'[r]))]_vars

\* body validation has refused one request and auth another, each with its
\* one response, after the three middleware before them passed them on
C23_Witness ==
    \E r, q \in Requests :
        /\ reqs[r].pc = "done" /\ reqs[q].pc = "done"
        /\ reqs[r].route = "POST /api/identity/create"
        /\ Len(reqs[r].responses) = 1
        /\ reqs[r].responses[1].status = 400
        /\ reqs[r].nexts = 3
        /\ reqs[q].route = "GET /vscore"
        /\ Len(reqs[q].responses) = 1
        /\ reqs[q].responses[1].status = 401
        /\ reqs[q].nexts = 3


----------------------------------------------------------------------------
(* Claims about the error dispatcher *)

\* the step of request r is one of errorHandler
DispatcherStep(r) == reqs[r].pc = "error" /\ reqs'[r] # reqs[r]

\* C24: when an error reaches errorHandler for a request whose response is
\* already out, errorHandler writes nothing, leaves the response and its
\* headers as they are, and forwards the same error to the next handler
C24_NoDoubleSend ==
    [][\A r \in Requests :
          (DispatcherStep(r) /\ Len(reqs[r].responses) > 0)
             => /\ reqs'[r].responses = reqs[r].responses
                /\ reqs'[r].resHeaders = reqs[r].resHeaders
                /\ reqs'[r].err = reqs[r].err
                /\ reqs'[r].pc = "final"]_vars

\* a handler answered 200 and then failed; errorHandler has forwarded its
\* error and the request still has the one response
C24_Witness ==
    \E r \in Requests :
        /\ reqs[r].pc = "final"
        /\ reqs[r].err = TypeError("boom")
        /\ Len(reqs[r].responses) = 1
        /\ reqs[r].responses[1].status = 200


\* the responses of request r that report a failure
Failures(r) ==
    {i \in 1..Len(reqs[r].responses) : ~reqs[r].responses[i].body.success}

\* C25: every failure response has an error with code, message and
\* requestId, the requestId being the correlation id of the request
C25_FailureShape ==
    \A r \in Requests : \A i \in Failures(r) :
        LET error == reqs[r].responses[i].body.error
        IN  /\ {"code", "message", "requestId"} \subseteq DOMAIN error
            /\ error.requestId = reqs[r].id


\* errorHandler runs on the error of r and the response is not out yet
Dispatched(r) == DispatcherStep(r) /\ Len(reqs[r].responses) = 0

\* the response errorHandler wrote for r in this step
Rendered(r) == reqs'[r].responses[1]

\* the body of the only response of request r
OnlyBody(r) == reqs[r].responses[1].body

DevelopmentMode == Get(env, "NODE_ENV") = Str("development")

GenericMessage == "An unexpected error occurred"

\* C26: an operational error that reaches errorHandler is rendered with its
\* own status, its own code, its message verbatim and the requestId of the
\* request, whatever the mode
C26_OperationalVerbatim ==
    [][\A r \in Requests :
          (Dispatched(r) /\ reqs[r].err.isOperational)
             => /\ Len(reqs'[r].responses) = 1
                /\ Rendered(r).status = reqs[r].err.statusCode.n
                /\ Rendered(r).body.success = FALSE
                /\ Rendered(r).body.error.code = reqs[r].err.code.s
                /\ Rendered(r).body.error.message = reqs[r].err.message
                /\ Rendered(r).body.error.requestId = reqs[r].id]_vars

\* outside development mode ApiError.notFound() was rendered as 404
\* NOT_FOUND with its message and the minted id of the request, while
\* another request waits with an ApiError of its own
C26_Witness ==
    \E r, q \in Requests :
        /\ ~DevelopmentMode
        /\ reqs[r].pc = "done"
        /\ reqs[r].err = ApiError(404, "NOT_FOUND", "Resource not found")
        /\ reqs[r].responses[1].status = 404
        /\ OnlyBody(r).error.code = "NOT_FOUND"
        /\ OnlyBody(r).error.message = "Resource not found"
        /\ OnlyBody(r).error.requestId = MintedId(r)
        /\ reqs[q].pc = "error"
        /\ reqs[q].err.isOperational
        /\ reqs[q].err.statusCode = Num(400)


\* C27: a non-operational error that reaches errorHandler is rendered with
\* the generic message outside development mode, and with its own message
\* and its stack in development mode
C27_UnclassifiedByMode ==
    [][\A r \in Requests :
          (Dispatched(r) /\ ~reqs[r].err.isOperational)
             => IF DevelopmentMode
                THEN /\ Rendered(r).body.error.message = reqs[r].err.message
                     /\ "stack" \in DOMAIN Rendered(r).body.error
                     /\ Rendered(r).body.error.stack = reqs[r].err.stack
                ELSE Rendered(r).body.error.message = GenericMessage]_vars

\* the step of request r is one of errorHandler or of corsErrorHandler and
\* writes a response
ErrorResponseWritten(r) ==
    /\ reqs[r].pc \in {"error", "corsError"}
    /\ Len(reqs[r].responses) = 0
    /\ Len(reqs'[r].responses) = 1

\* C28: outside development mode a response of errorHandler or of
\* corsErrorHandler has neither stack nor details, whether the error is
\* operational or not, and neither its code nor its message gives the
\* message of a non-operational error
C28_NoLeakOutsideDevelopment ==
    [][\A r \in Requests :
          (ErrorResponseWritten(r) /\ ~DevelopmentMode)
             => /\ "stack" \notin DOMAIN Rendered(r).body.error
                /\ "details" \notin DOMAIN Rendered(r).body.error
                /\ ~reqs[r].err.isOperational
                      => reqs[r].err.message
                            \notin {Rendered(r).body.error.code,
                                    Rendered(r).body.error.message}]_vars

\* outside development mode an ApiError that has details was rendered
\* without them and a programming error with the generic message
C28_Witness ==
    \E r, q \in Requests :
        /\ ~DevelopmentMode
        /\ reqs[r].pc = "done" /\ reqs[q].pc = "done"
        /\ reqs[r].err # Undefined /\ reqs[r].err.isOperational
        /\ reqs[r].err.details.t = "obj"
        /\ reqs[r].responses[1].status = 400
        /\ "details" \notin DOMAIN OnlyBody(r).error
        /\ reqs[q].err = TypeError("boom")
        /\ reqs[q].responses[1].status = 500
        /\ OnlyBody(q).error.message = GenericMessage
        /\ "stack" \notin DOMAIN OnlyBody(q).error

\* the status an error brings along: err.statusCode, else err.status
OwnStatus(err) == OrElse(err.statusCode, err.status)

\* the fixed status of the well-known failure signatures
FixedStatus(err) ==
    IF err.name = "ValidationError" THEN 400
    ELSE IF err.name \in {"JsonWebTokenError", "TokenExpiredError"} THEN 401
    ELSE IF err.message = "Not allowed by CORS" THEN 403
    ELSE 500

\* C29: errorHandler renders an error that has a status of its own with
\* that status, and applies the fixed status of a well-known signature only
\* to an error that has none
C29_FixedStatusOnlyWhenUnset ==
    [][\A r \in Requests :
          Dispatched(r)
             => Rendered(r).status =
                   IF Falsy(OwnStatus(reqs[r].err))
                   THEN FixedStatus(reqs[r].err)
                   ELSE OwnStatus(reqs[r].err).n]_vars


----------------------------------------------------------------------------
(* Claims about the correlation id *)

InboundRequestId(req) == Get(req.headers, "x-request-id")

\* requestIdMiddleware has run on the request
Identified(req) == req.pc \notin {"idle", "requestId"}

\* every response of the request went out with the id of the request in its
\* X-Request-ID header, and with no other
CarriesId(req) ==
    \A i \in 1..Len(req.responses) :
        {h.v : h \in {x \in req.responses[i].headers : x.k = "X-Request-ID"}}
           = {req.id}

\* once the id of request r is set, no step of r changes it
IdKept(r) ==
    (Identified(reqs[r]) /\ reqs'[r].pc # "idle") => reqs'[r].id = reqs[r].id

\* C30 as stated: every response carries the id of its request in the
\* X-Request-ID header; the id is the inbound X-Request-ID header if the
\* request has one and a minted identifier otherwise, and it never changes
C30_CorrelationIdAsStated ==
    [][\A r \in Requests :
          /\ Identified(reqs'[r])
                => /\ reqs'[r].id =
                         IF InboundRequestId(reqs'[r]) # Undefined
                         THEN InboundRequestId(reqs'[r])
                         ELSE MintedId(r)
                   /\ CarriesId(reqs'[r])
          /\ IdKept(r)]_vars

\* C30: every response, of a handler or of a rejecting middleware, carries
\* the id of its request in the X-Request-ID header; the id is the inbound
\* X-Request-ID header if the request has one that is not empty and a minted
\* identifier otherwise, and it never changes
C30_CorrelationId ==
    [][\A r \in Requests :
          /\ Identified(reqs'[r])
                => /\ reqs'[r].id =
                         IF InboundRequestId(reqs'[r]) \notin {Undefined, Text(<<>>)}
                         THEN InboundRequestId(reqs'[r])
                         ELSE MintedId(r)
                   /\ CarriesId(reqs'[r])
          /\ IdKept(r)]_vars

\* the origin policy refused a request that brought its id and the response
\* names that id, and the limiter refused one that brought none and the
\* response names the minted one
C30_Witness ==
    \E r, q \in Requests :
        /\ InboundRequestId(reqs[r]) = InboundId
        /\ Len(reqs[r].responses) = 1
        /\ reqs[r].responses[1].status = 403
        /\ [k |-> "X-Request-ID", v |-> InboundId] \in reqs[r].responses[1].headers
        /\ InboundRequestId(reqs[q]) = Undefined
        /\ Len(reqs[q].responses) = 1
        /\ reqs[q].responses[1].status = 429
        /\ [k |-> "X-Request-ID", v |-> MintedId(q)] \in reqs[q].responses[1].headers


----------------------------------------------------------------------------
(* Claims about what a refused token tells *)

\* the token request r presents after the Bearer prefix
OwnToken(r) == Text(Slice(AuthHeaderOf(r).c, 7))

\* the token has not three segments, or its signed payload does not decode
Malformed(token) ==
    \/ Len(Parts(token)) # 3
    \/ /\ SignatureMatches(token, Secret)
       /\ PayloadOf(token) = Throw

\* the token has three segments and the third is not the digest of the
\* first two under the secret
InvalidSignature(token) ==
    Len(Parts(token)) = 3 /\ ~SignatureMatches(token, Secret)

\* the signed payload names an instant, in seconds, that was reached at
\* instant now
ExpiredAt(token, now) ==
    /\ SignatureMatches(token, Secret)
    /\ PayloadOf(token).t = "obj"
    /\ Get(PayloadOf(token), "exp").t = "num"
    /\ now >= Get(PayloadOf(token), "exp").n * 1000

\* authMiddleware has run on r, with the secret set, on a token that was
\* malformed, badly signed or expired at that instant
Refusable(r) ==
    /\ PastAuth(r)
    /\ HasBearer(r)
    /\ ~Falsy(Secret)
    /\ \/ Malformed(OwnToken(r))
       \/ InvalidSignature(OwnToken(r))
       \/ ExpiredAt(OwnToken(r), reqs[r].at)

\* C31: a malformed token, a token with an invalid signature and an expired
\* token all get 401 INVALID_TOKEN from authMiddleware with the same body and
\* no identity, so that the responses of any two such requests are equal
C31_OneInvalidTokenOutcome ==
    \A r \in Requests :
        Refusable(r)
           => /\ RejectedWith(r, 401, "INVALID_TOKEN")
              /\ reqs[r].responses[1].body
                    = ErrorBody("INVALID_TOKEN", "Invalid or expired token")
              /\ \A q \in Requests :
                    Refusable(q) => reqs[q].responses = reqs[r].responses



----------------------------------------------------------------------------
(* Claims about the end of every request *)

\* request r is in the chain
Entered(r) == reqs[r].pc # "idle"

\* request r has its one response
Answered(r) == reqs[r].pc = "done" /\ Len(reqs[r].responses) = 1

\* request r has its response, 404 NOT_FOUND
AnsweredNotFound(r) ==
    /\ Answered(r)
    /\ reqs[r].responses[1].status = 404
    /\ reqs[r].responses[1].body.error.code = "NOT_FOUND"

\* C32: every request that enters the chain gets its response in the end,
\* whichever middleware refuses it and whichever handler serves it, also one
\* that fails before or after it has answered; a request that no route takes
\* gets 404 NOT_FOUND
C32_EveryRequestAnswered ==
    /\ \A r \in Requests : Entered(r) ~> Answered(r)
    /\ \A r \in Requests : (reqs[r].pc = "notFound") ~> AnsweredNotFound(r)

\* a request that no route took has its 404 while the request whose handler
\* failed has its 500
C32_Witness ==
    \E r, q \in Requests :
        /\ AnsweredNotFound(r)
        /\ reqs[r].route = "GET /nowhere"
        /\ Answered(q)
        /\ reqs[q].route = "GET /fails"
        /\ reqs[q].responses[1].status = 500



----------------------------------------------------------------------------
(* Claims about the order of the chain *)

\* the request names an origin that is not on the list
RefusedOrigin(req) ==
    /\ Get(req.headers, "origin") \notin {Undefined, Text(<<>>)}
    /\ ~Includes(allowedOrigins, Get(req.headers, "origin"))

\* the stages of a route: its middleware and its handler
RouteStages == {"auth", "roles", "validate", "handler", "notFound"}

\* the stages behind the limiter, for a request it counts
BehindLimiter == RouteStages \cup {"error", "final", "done"}

\* the requests in the chain the limiter has counted under key
CountedRequests(key) ==
    {r \in Requests :
        /\ reqs[r].pc \in BehindLimiter
        /\ ~RefusedOrigin(reqs[r])
        /\ reqs[r].route \notin {"/health", "/api/health"}
        /\ keyGenerator(reqs[r]) = key}

\* request r is refused in this step by authMiddleware or by requireRoles
RefusedByRoute(r) ==
    /\ reqs[r].pc \in {"auth", "roles"}
    /\ reqs'[r].pc = "done"
    /\ reqs'[r].responses[1].status \in {401, 403}

\* C33: the origin policy runs before the limiter and the limiter before the
\* routes. A request reaches the limiter only from the origin policy, which
\* allowed it, and a route only from the limiter, which counted it under its
\* key; no step of a request the origin policy refuses changes a counter;
\* and when authMiddleware or requireRoles refuses a request, the counter of
\* its key already holds it, with every other request of that key
C33_PipelineOrder ==
    [][\A r \in Requests :
          /\ (reqs'[r].pc = "rateLimit" /\ reqs[r].pc # "rateLimit")
                => reqs[r].pc = "cors" /\ ~RefusedOrigin(reqs[r])
          /\ (reqs'[r].pc \in RouteStages /\ reqs[r].pc \notin RouteStages)
                => /\ reqs[r].pc = "rateLimit"
                   /\ CountedUnder(r, keyGenerator(reqs[r]))
          /\ (RefusedOrigin(reqs'[r]) /\ reqs'[r] # reqs[r])
                => /\ store' = store
                   /\ reqs'[r].pc \in {"requestId", "cors", "corsError", "done"}
          /\ RefusedByRoute(r)
                => /\ store' = store
                   /\ Counted(store, keyGenerator(reqs[r]))
                         >= Cardinality(CountedRequests(keyGenerator(reqs[r])))
                   /\ r \in CountedRequests(keyGenerator(reqs[r]))]_vars

\* two requests of one client are answered, the one refused by the origin
\* policy and the other by authMiddleware, and the counter of the client
\* holds one request
C33_Witness ==
    \E r, q \in Requests :
        /\ reqs[r].pc = "done" /\ reqs[q].pc = "done"
        /\ RefusedOrigin(reqs[r])
        /\ reqs[r].responses[1].status = 403
        /\ ~RefusedOrigin(reqs[q])
        /\ reqs[q].responses[1].status = 401
        /\ keyGenerator(reqs[r]) = keyGenerator(reqs[q])
        /\ Counted(store, keyGenerator(reqs[q])) = 1


----------------------------------------------------------------------------
(* Claims about what the caller's claims can set *)

\* a token has just been issued
JustIssued == tok.kind = "issued" /\ clock = tok.at

\* the claims without the properties named
Without(claims, names) ==
    Obj(SelectSeq(claims.m, LAMBDA x : x.k \notin names))

\* the payload of the token issued at this instant, with the same secret and
\* ttl, from the caller's claims without their iat and exp
PayloadWithoutOwn ==
    PayloadOf(createToken(Without(tok.payload, {"iat", "exp"}),
                          tok.secret, tok.expiresIn))

\* the claims of the caller other than iat and exp
OtherClaims == Keys(tok.payload) \ {"iat", "exp"}

\* the value as JSON carries it: a NaN as null, any other value as it is (an
\* undefined property is left out, and reads as undefined)
Carried(v) == IF v = NaN THEN Null ELSE v

\* iat of the issued token is the second of issuance and its exp is the one
\* the token has without the caller's iat and exp
OwnTimesOverwritten ==
    /\ PayloadOf(tok.token).t = "obj"
    /\ Get(PayloadOf(tok.token), "iat") = Num(tok.at \div 1000)
    /\ Get(PayloadOf(tok.token), "exp") = Get(PayloadWithoutOwn, "exp")

\* C34 as stated: createToken overwrites iat and exp whatever the claims say
\* under these keys, and every other claim of the caller is in the token
\* with the caller's value
C34_ClaimsCannotSetTimesAsStated ==
    JustIssued
       => /\ OwnTimesOverwritten
          /\ \A k \in OtherClaims :
                Get(PayloadOf(tok.token), k) = Get(tok.payload, k)

\* C34: createToken overwrites iat and exp whatever the claims say under
\* these keys, so that the lifetime of the token is the one the ttl gives;
\* every other claim of the caller is in the token as JSON carries it:
\* unchanged, but a NaN as null and an undefined one left out
C34_ClaimsCannotSetTimes ==
    JustIssued
       => /\ OwnTimesOverwritten
          /\ \A k \in OtherClaims :
                Get(PayloadOf(tok.token), k) = Carried(Get(tok.payload, k))

\* a token of one hour was issued from claims that ask for an exp far away
\* and an iat long ago: it has neither, and the subject of the claims
C34_Witness ==
    /\ JustIssued
    /\ tok.expiresIn = Text(Chars(<<"1", "h">>))
    /\ Get(tok.payload, "exp") = Num(2000000000)
    /\ Get(tok.payload, "iat") = Num(1)
    /\ Get(PayloadOf(tok.token), "exp") = Num(tok.at \div 1000 + 3600)
    /\ Get(PayloadOf(tok.token), "iat") = Num(tok.at \div 1000)
    /\ Get(PayloadOf(tok.token), "sub") = Get(tok.payload, "sub")
====
